---- MODULE Spec2Model ----
(***************************************************************************)
(* Know Law server (src/server.js): session identity, the four tables     *)
(* (users, conversations, messages, bookings), the owner-scoped CRUD      *)
(* endpoints, POST /api/chat with its upload middleware and the response  *)
(* generator.  Every asynchronous handler is cut where it awaits a        *)
(* datastore write, so two requests can interleave as they do on the      *)
(* single-threaded event loop.                                            *)
(***************************************************************************)
EXTENDS Integers, Sequences, FiniteSets, TLC

\* ------------------------------------------------------------------ bounds
MaxUsers == 2
MaxConvs == 2
MaxMsgs == 2
MaxTime == 1
MaxBookings == 1
MaxUploads == 2

\* two browser clients, each holding one session cookie
Sessions == {"c1", "c2"}

\* ----------------------------------------------------------------- strings
\* Text whose characters matter (trim, substring, length, includes) is a
\* sequence of code points; opaque text (e-mail, name) is a TLA+ string.
EmptyStr == <<>>
\* " "
Blank == <<32>>
\* "hi"
TextHi == <<104, 105>>
\* " ok "
TextPadOk == <<32, 111, 107, 32>>
\* "ok"
TextOk == <<111, 107>>
\* 'New Chat'
NewChatTitle == <<78, 101, 119, 32, 67, 104, 97, 116>>

\* the white space String.prototype.trim removes (tab, LF, VT, FF, CR, space, NBSP)
IsSpace(ch) == ch \in {9, 10, 11, 12, 13, 32, 160}

RECURSIVE TrimStart(_)
TrimStart(str) ==
    IF str = <<>> THEN str
    ELSE IF IsSpace(Head(str)) THEN TrimStart(Tail(str)) ELSE str

RECURSIVE TrimEnd(_)
TrimEnd(str) ==
    IF str = <<>> THEN str
    ELSE IF IsSpace(str[Len(str)]) THEN TrimEnd(SubSeq(str, 1, Len(str) - 1)) ELSE str

\* a trim that removes nothing
TrimNothing(str) == str

\* String.prototype.trim
Trim(str) == TrimEnd(TrimStart(str))

\* a substring that cuts nothing
SubstringAll(str, n) == str

\* String.prototype.substring(0, n)
Substring0(str, n) == SubSeq(str, 1, IF Len(str) < n THEN Len(str) ELSE n)

\* String.prototype.includes
Includes(str, sub) ==
    \E i \in 0..(Len(str) - Len(sub)) : SubSeq(str, i + 1, i + Len(sub)) = sub

\* String.prototype.toLowerCase on the letters A-Z, on the capitals of
\* Latin-1 (U+00C0..U+00DE without the multiplication sign) and on U+0160
ToLowerCase(str) ==
    [i \in 1..Len(str) |->
        IF str[i] \in 65..90 \/ str[i] \in (192..222) \ {215} THEN str[i] + 32
        ELSE IF str[i] = 352 THEN 353
        ELSE str[i]]

\* ------------------------------------------------------- JavaScript values
\* req.session.userId is undefined, a number (users.id) or the string 'guest'
Undefined == [tag |-> "undefined", num |-> 0, str |-> ""]
Num(n) == [tag |-> "number", num |-> n, str |-> ""]
Str(s) == [tag |-> "string", num |-> 0, str |-> s]

\* a gate that lets every value through
TruthyAlways(v) == TRUE

\* the condition of `if (v)`
Truthy(v) ==
    \/ v.tag = "number" /\ v.num # 0
    \/ v.tag = "string" /\ v.str # ""

DecimalString(n) ==
    CASE n = 0 -> "0" [] n = 1 -> "1" [] n = 2 -> "2" [] n = 3 -> "3"
      [] n = 4 -> "4" [] n = 5 -> "5" [] n = 6 -> "6" [] n = 7 -> "7"
      [] n = 8 -> "8" [] n = 9 -> "9"

\* req.session.userId.toString()
IdToString(v) == IF v.tag = "string" THEN v.str ELSE DecimalString(v.num)

GuestId == "guest"
GuestEmail == "guest@knowlaw.com"
GuestName == "Guest User"

VARIABLES
    users,          \* table users: sequence of rows, row i has id i
    sessionStore,   \* express-session store: cookie -> session data
    conversations,  \* table conversations: id -> row
    convSeq,        \* AUTOINCREMENT counter of conversations
    messages,       \* table messages: id -> row
    msgSeq,         \* AUTOINCREMENT counter of messages
    bookings,       \* table bookings: sequence of rows
    uploads,        \* files present in ./uploads
    uploadSeq,      \* number of files ever written to ./uploads
    now,            \* wall clock in seconds (CURRENT_TIMESTAMP)
    today,          \* calendar day of the wall clock
    apiKey,         \* process.env.OPENAI_API_KEY
    reqs,           \* per client: the request in flight, or Idle
    last            \* the response sent most recently

vars == <<users, sessionStore, conversations, convSeq, messages, msgSeq,
          bookings, uploads, uploadSeq, now, today, apiKey, reqs, last>>

dbVars == <<users, conversations, convSeq, messages, msgSeq, bookings>>

\* a session without identity: a new cookie, or one whose session was destroyed
EmptySession ==
    [userId |-> Undefined, userEmail |-> "", userName |-> "", isGuest |-> FALSE]

\* the outcome of a request that has not called the completion API
NotCalled == [kind |-> "notCalled", content |-> <<>>]

Idle ==
    [op |-> "idle", pc |-> "", sess |-> EmptySession, chatId |-> 0,
     messageId |-> 0, arg |-> <<>>, name |-> "", email |-> "",
     password |-> <<>>, files |-> <<>>, hist |-> <<>>,
     completion |-> NotCalled, reply |-> <<>>]

\* the owner id a session presents to the datastore ("" without identity)
OwnerOf(sess) == IF Truthy(sess.userId) THEN IdToString(sess.userId) ELSE ""

\* a response: the operation and client it answers, the identity the handler
\* saw, the ids of the request, status and message, the rows of the body.
\* n alternates with every response sent, so that two equal responses in a
\* row are two events.  The message of the body is `message` followed by
\* `detail`, the text a handler appends to its fixed message.
Response(op, s, sess, chatId, messageId, status, message, rows) ==
    [op |-> op, s |-> s, uid |-> OwnerOf(sess), chatId |-> chatId,
     messageId |-> messageId, status |-> status,
     message |-> message, detail |-> "", rows |-> rows,
     isGuest |-> (sess.isGuest \/ sess.userId = Str(GuestId)),
     n |-> 1 - last.n]

NoResponse ==
    [op |-> "none", s |-> "c1", uid |-> "", chatId |-> 0, messageId |-> 0,
     status |-> 0, message |-> "", detail |-> "", rows |-> <<>>,
     isGuest |-> FALSE, n |-> 0]

\* ---------------------------------------------------------------- datastore
\* sqlite3 is opened without `PRAGMA foreign_keys = ON`, so the engine runs
\* with foreign-key enforcement off and ON DELETE CASCADE never fires.
ForeignKeysEnabled == FALSE

ConversationRow(userId, title, t) ==
    [user_id |-> userId, title |-> title, created_at |-> t, updated_at |-> t]

MessageRow(chatId, role, content, fileInfo, t) ==
    [conversation_id |-> chatId, role |-> role, content |-> content,
     file_info |-> fileInfo, created_at |-> t, updated_at |-> t]

\* the same query without its owner condition
SelectConversationAnyOwner(chatId, userId) ==
    {c \in DOMAIN conversations : c = chatId}

\* SELECT * FROM conversations WHERE id = ? AND user_id = ?
SelectConversation(chatId, userId) ==
    {c \in DOMAIN conversations : c = chatId /\ conversations[c].user_id = userId}

\* SELECT * FROM messages WHERE id = ? AND conversation_id = ?
\* the same query without its conversation condition
SelectMessageOfAnyConversation(messageId, chatId) ==
    {m \in DOMAIN messages : m = messageId}

\* the same query restricted to the turns of the user
SelectMessageOfUser(messageId, chatId) ==
    {m \in DOMAIN messages :
        m = messageId /\ messages[m].conversation_id = chatId /\ messages[m].role = "user"}

SelectMessage(messageId, chatId) ==
    {m \in DOMAIN messages : m = messageId /\ messages[m].conversation_id = chatId}

\* the same query without its role condition
SelectMessageAnyRole(messageId, chatId, role) ==
    {m \in DOMAIN messages : m = messageId /\ messages[m].conversation_id = chatId}

\* SELECT * FROM messages WHERE id = ? AND conversation_id = ? AND role = ?
SelectMessageWithRole(messageId, chatId, role) ==
    {m \in SelectMessage(messageId, chatId) : messages[m].role = role}

\* all orders of the rows S: ORDER BY is applied by the callers
Orderings(S) ==
    {q \in [1..Cardinality(S) -> S] : \A i, j \in 1..Cardinality(S) : i # j => q[i] # q[j]}

\* ORDER BY created_at ASC.  The statement names no second sort key, so the
\* engine may return rows of equal created_at in any order.
\* Computed one created_at value at a time: the rows of the earliest second in
\* any order, followed by the rest.
RECURSIVE MessagesByCreatedAt(_)
MessagesByCreatedAt(S) ==
    IF S = {} THEN {<<>>}
    ELSE LET first == {m \in S : \A k \in S : messages[m].created_at <= messages[k].created_at}
         IN  {p \o q : p \in Orderings(first), q \in MessagesByCreatedAt(S \ first)}

\* SELECT * FROM messages WHERE conversation_id = ? ORDER BY created_at ASC
SelectMessagesOf(chatId) ==
    MessagesByCreatedAt({m \in DOMAIN messages : messages[m].conversation_id = chatId})

\* the same query without ORDER BY
SelectConversationsUnordered(userId) ==
    Orderings({c \in DOMAIN conversations : conversations[c].user_id = userId})

\* SELECT * FROM conversations WHERE user_id = ? ORDER BY updated_at DESC
SelectConversationsOf(userId) ==
    LET S == {c \in DOMAIN conversations : conversations[c].user_id = userId}
    IN {q \in Orderings(S) :
          \A i, j \in 1..Len(q) : i < j =>
              conversations[q[i]].updated_at >= conversations[q[j]].updated_at}

\* a statement that leaves updated_at as it is
TouchNothing(chatId) == conversations

\* UPDATE conversations SET updated_at = CURRENT_TIMESTAMP WHERE id = ?
TouchConversation(chatId) ==
    IF chatId \in DOMAIN conversations
    THEN [conversations EXCEPT ![chatId].updated_at = now]
    ELSE conversations

\* the rows of function f except those with a key in S
Without(f, S) == [k \in DOMAIN f \ S |-> f[k]]

\* DELETE FROM conversations WHERE id = ?  (with the cascade of the schema
\* when the engine enforces foreign keys)
MessagesAfterConversationDelete(chatId) ==
    IF ForeignKeysEnabled
    THEN Without(messages, {m \in DOMAIN messages : messages[m].conversation_id = chatId})
    ELSE messages

Unauthenticated(op, s) ==
    Response(op, s, EmptySession, 0, 0, 401, "Not authenticated", <<>>)

\* ------------------------------------------------------------------ session
\* a guest endpoint that refuses a session that has an identity
GuestOnlyWhenAnonymous(s) ==
    /\ reqs[s] = Idle
    /\ IF sessionStore[s].userId # Undefined
       THEN /\ last' = Response("guest", s, sessionStore[s], 0, 0, 400,
                                "Already logged in", <<>>)
            /\ UNCHANGED sessionStore
       ELSE /\ sessionStore' = [sessionStore EXCEPT ![s] =
                  [userId |-> Str(GuestId), userEmail |-> GuestEmail,
                   userName |-> GuestName, isGuest |-> TRUE]]
            /\ last' = Response("guest", s, sessionStore'[s], 0, 0, 200,
                                "Guest session created", <<>>)
    /\ UNCHANGED <<users, conversations, convSeq, messages, msgSeq, bookings,
                   uploads, uploadSeq, now, today, apiKey, reqs>>

\* POST /api/guest
Guest(s) ==
    /\ reqs[s] = Idle
    /\ sessionStore' = [sessionStore EXCEPT ![s] =
            [userId |-> Str(GuestId), userEmail |-> GuestEmail,
             userName |-> GuestName, isGuest |-> TRUE]]
    /\ last' = Response("guest", s, sessionStore'[s], 0, 0, 200,
                        "Guest session created", <<>>)
    /\ UNCHANGED <<dbVars, uploads, uploadSeq, now, today, apiKey, reqs>>

\* a logout that answers without destroying the session
LogoutKeepsSession(s) ==
    /\ reqs[s] = Idle
    /\ last' = [op |-> "logout", s |-> s, uid |-> "", chatId |-> 0, messageId |-> 0,
                status |-> 200, message |-> "Logged out successfully", detail |-> "",
                rows |-> <<>>, isGuest |-> FALSE, n |-> 1 - last.n]
    /\ UNCHANGED <<users, conversations, convSeq, messages, msgSeq, bookings,
                   sessionStore, uploads, uploadSeq, now, today, apiKey, reqs>>

\* POST /api/logout: req.session.destroy
Logout(s) ==
    /\ reqs[s] = Idle
    /\ sessionStore' = [sessionStore EXCEPT ![s] = EmptySession]
    /\ last' = Response("logout", s, EmptySession, 0, 0, 200,
                        "Logged out successfully", <<>>)
    /\ UNCHANGED <<dbVars, uploads, uploadSeq, now, today, apiKey, reqs>>

\* GET /api/session
CheckSession(s) ==
    /\ reqs[s] = Idle
    /\ last' = IF Truthy(sessionStore[s].userId)
               THEN Response("session", s, sessionStore[s], 0, 0, 200, "user", <<>>)
               ELSE Response("session", s, EmptySession, 0, 0, 200,
                             "Not authenticated", <<>>)
    /\ UNCHANGED <<dbVars, sessionStore, uploads, uploadSeq, now, today, apiKey, reqs>>

\* ------------------------------------------------------------ conversations
\* GET /api/chats
ListChats(s) ==
    /\ reqs[s] = Idle
    /\ LET sess == sessionStore[s] IN
       IF ~Truthy(sess.userId)
       THEN last' = Unauthenticated("listChats", s)
       ELSE \E rows \in SelectConversationsOf(IdToString(sess.userId)) :
               last' = Response("listChats", s, sess, 0, 0, 200, "ok", rows)
    /\ UNCHANGED <<dbVars, sessionStore, uploads, uploadSeq, now, today, apiKey, reqs>>

\* GET /api/chats/:chatId
GetChat(s, chatId) ==
    /\ reqs[s] = Idle
    /\ LET sess == sessionStore[s] IN
       IF ~Truthy(sess.userId)
       THEN last' = Unauthenticated("getChat", s)
       ELSE IF SelectConversation(chatId, IdToString(sess.userId)) = {}
       THEN last' = Response("getChat", s, sess, chatId, 0, 404,
                             "Conversation not found", <<>>)
       ELSE \E rows \in SelectMessagesOf(chatId) :
               last' = Response("getChat", s, sess, chatId, 0, 200, "ok", rows)
    /\ UNCHANGED <<dbVars, sessionStore, uploads, uploadSeq, now, today, apiKey, reqs>>

\* POST /api/chats
CreateChat(s, title) ==
    /\ reqs[s] = Idle
    /\ LET sess == sessionStore[s] IN
       IF ~Truthy(sess.userId)
       THEN /\ last' = Unauthenticated("createChat", s)
            /\ UNCHANGED <<conversations, convSeq>>
       ELSE /\ convSeq < MaxConvs
            /\ convSeq' = convSeq + 1
            /\ conversations' = conversations @@ (convSeq' :>
                  ConversationRow(IdToString(sess.userId),
                                  IF title = EmptyStr THEN NewChatTitle ELSE title, now))
            /\ last' = Response("createChat", s, sess, convSeq', 0, 200, "ok", <<>>)
    /\ UNCHANGED <<users, messages, msgSeq, bookings, sessionStore, uploads,
                   uploadSeq, now, today, apiKey, reqs>>

\* PUT /api/chats/:chatId: the checks up to the ownership query
RenameChat(s, chatId, title) ==
    /\ reqs[s] = Idle
    /\ LET sess == sessionStore[s] IN
       IF ~Truthy(sess.userId)
       THEN /\ last' = Unauthenticated("renameChat", s)
            /\ UNCHANGED reqs
       ELSE IF Trim(title) = EmptyStr
       THEN /\ last' = Response("renameChat", s, sess, chatId, 0, 400,
                                "Title is required", <<>>)
            /\ UNCHANGED reqs
       ELSE IF SelectConversation(chatId, IdToString(sess.userId)) = {}
       THEN /\ last' = Response("renameChat", s, sess, chatId, 0, 404,
                                "Conversation not found", <<>>)
            /\ UNCHANGED reqs
       ELSE /\ reqs' = [reqs EXCEPT ![s] = [Idle EXCEPT !.op = "renameChat",
                           !.pc = "update", !.sess = sess, !.chatId = chatId,
                           !.arg = title]]
            /\ UNCHANGED last
    /\ UNCHANGED <<dbVars, sessionStore, uploads, uploadSeq, now, today, apiKey>>

\* PUT /api/chats/:chatId: UPDATE conversations SET title, updated_at
RenameChatUpdate(s) ==
    /\ reqs[s].op = "renameChat" /\ reqs[s].pc = "update"
    /\ LET r == reqs[s] IN
       /\ conversations' =
            IF r.chatId \in DOMAIN conversations
            THEN [conversations EXCEPT ![r.chatId].title = Trim(r.arg),
                                       ![r.chatId].updated_at = now]
            ELSE conversations
       /\ last' = Response("renameChat", s, r.sess, r.chatId, 0, 200,
                           "Conversation updated successfully", <<>>)
    /\ reqs' = [reqs EXCEPT ![s] = Idle]
    /\ UNCHANGED <<users, convSeq, messages, msgSeq, bookings, sessionStore,
                   uploads, uploadSeq, now, today, apiKey>>

\* DELETE /api/chats/:chatId: the checks up to the ownership query
DeleteChat(s, chatId) ==
    /\ reqs[s] = Idle
    /\ LET sess == sessionStore[s] IN
       IF ~Truthy(sess.userId)
       THEN /\ last' = Unauthenticated("deleteChat", s)
            /\ UNCHANGED reqs
       ELSE IF SelectConversation(chatId, IdToString(sess.userId)) = {}
       THEN /\ last' = Response("deleteChat", s, sess, chatId, 0, 404,
                                "Conversation not found", <<>>)
            /\ UNCHANGED reqs
       ELSE /\ reqs' = [reqs EXCEPT ![s] = [Idle EXCEPT !.op = "deleteChat",
                           !.pc = "delete", !.sess = sess, !.chatId = chatId]]
            /\ UNCHANGED last
    /\ UNCHANGED <<dbVars, sessionStore, uploads, uploadSeq, now, today, apiKey>>

\* DELETE /api/chats/:chatId: DELETE FROM conversations WHERE id = ?
DeleteChatDelete(s) ==
    /\ reqs[s].op = "deleteChat" /\ reqs[s].pc = "delete"
    /\ LET r == reqs[s] IN
       /\ conversations' = Without(conversations, {r.chatId})
       /\ messages' = IF r.chatId \in DOMAIN conversations
                      THEN MessagesAfterConversationDelete(r.chatId)
                      ELSE messages
       /\ last' = Response("deleteChat", s, r.sess, r.chatId, 0, 200,
                           "Conversation deleted successfully", <<>>)
    /\ reqs' = [reqs EXCEPT ![s] = Idle]
    /\ UNCHANGED <<users, convSeq, msgSeq, bookings, sessionStore,
                   uploads, uploadSeq, now, today, apiKey>>

\* PUT /api/chats/:chatId/messages/:messageId: the checks up to the two
\* queries (conversation owned, message a user message of the conversation)
EditMessage(s, chatId, messageId, content) ==
    /\ reqs[s] = Idle
    /\ LET sess == sessionStore[s] IN
       IF ~Truthy(sess.userId)
       THEN /\ last' = Unauthenticated("editMessage", s)
            /\ UNCHANGED reqs
       ELSE IF Trim(content) = EmptyStr
       THEN /\ last' = Response("editMessage", s, sess, chatId, messageId,
                                400, "Content is required", <<>>)
            /\ UNCHANGED reqs
       ELSE IF SelectConversation(chatId, IdToString(sess.userId)) = {}
       THEN /\ last' = Response("editMessage", s, sess, chatId, messageId,
                                404, "Conversation not found", <<>>)
            /\ UNCHANGED reqs
       ELSE IF SelectMessageWithRole(messageId, chatId, "user") = {}
       THEN /\ last' = Response("editMessage", s, sess, chatId, messageId,
                                404, "Message not found or cannot be edited", <<>>)
            /\ UNCHANGED reqs
       ELSE /\ reqs' = [reqs EXCEPT ![s] = [Idle EXCEPT !.op = "editMessage",
                           !.pc = "update", !.sess = sess, !.chatId = chatId,
                           !.messageId = messageId, !.arg = content]]
            /\ UNCHANGED last
    /\ UNCHANGED <<dbVars, sessionStore, uploads, uploadSeq, now, today, apiKey>>

\* UPDATE messages SET content = ?, updated_at = CURRENT_TIMESTAMP WHERE id = ?
EditMessageUpdate(s) ==
    /\ reqs[s].op = "editMessage" /\ reqs[s].pc = "update"
    /\ LET r == reqs[s] IN
       messages' = IF r.messageId \in DOMAIN messages
                   THEN [messages EXCEPT ![r.messageId].content = Trim(r.arg),
                                         ![r.messageId].updated_at = now]
                   ELSE messages
    /\ reqs' = [reqs EXCEPT ![s].pc = "touch"]
    /\ UNCHANGED <<users, conversations, convSeq, msgSeq, bookings, sessionStore,
                   uploads, uploadSeq, now, today, apiKey, last>>

\* the conversation timestamp update and the response of the edit
EditMessageTouch(s) ==
    /\ reqs[s].op = "editMessage" /\ reqs[s].pc = "touch"
    /\ LET r == reqs[s] IN
       /\ conversations' = TouchConversation(r.chatId)
       /\ last' = Response("editMessage", s, r.sess, r.chatId, r.messageId,
                           200, "Message updated successfully", <<>>)
    /\ reqs' = [reqs EXCEPT ![s] = Idle]
    /\ UNCHANGED <<users, convSeq, messages, msgSeq, bookings, sessionStore,
                   uploads, uploadSeq, now, today, apiKey>>

\* DELETE /api/chats/:chatId/messages/:messageId: the checks up to the two queries
DeleteMessage(s, chatId, messageId) ==
    /\ reqs[s] = Idle
    /\ LET sess == sessionStore[s] IN
       IF ~Truthy(sess.userId)
       THEN /\ last' = Unauthenticated("deleteMessage", s)
            /\ UNCHANGED reqs
       ELSE IF SelectConversation(chatId, IdToString(sess.userId)) = {}
       THEN /\ last' = Response("deleteMessage", s, sess, chatId, messageId,
                                404, "Conversation not found", <<>>)
            /\ UNCHANGED reqs
       ELSE IF SelectMessage(messageId, chatId) = {}
       THEN /\ last' = Response("deleteMessage", s, sess, chatId, messageId,
                                404, "Message not found", <<>>)
            /\ UNCHANGED reqs
       ELSE /\ reqs' = [reqs EXCEPT ![s] = [Idle EXCEPT !.op = "deleteMessage",
                           !.pc = "delete", !.sess = sess, !.chatId = chatId,
                           !.messageId = messageId]]
            /\ UNCHANGED last
    /\ UNCHANGED <<dbVars, sessionStore, uploads, uploadSeq, now, today, apiKey>>

\* DELETE FROM messages WHERE id = ?
DeleteMessageDelete(s) ==
    /\ reqs[s].op = "deleteMessage" /\ reqs[s].pc = "delete"
    /\ messages' = Without(messages, {reqs[s].messageId})
    /\ reqs' = [reqs EXCEPT ![s].pc = "touch"]
    /\ UNCHANGED <<users, conversations, convSeq, msgSeq, bookings, sessionStore,
                   uploads, uploadSeq, now, today, apiKey, last>>

\* the conversation timestamp update and the response of the delete
DeleteMessageTouch(s) ==
    /\ reqs[s].op = "deleteMessage" /\ reqs[s].pc = "touch"
    /\ LET r == reqs[s] IN
       /\ conversations' = TouchConversation(r.chatId)
       /\ last' = Response("deleteMessage", s, r.sess, r.chatId, r.messageId,
                           200, "Message deleted successfully", <<>>)
    /\ reqs' = [reqs EXCEPT ![s] = Idle]
    /\ UNCHANGED <<users, convSeq, messages, msgSeq, bookings, sessionStore,
                   uploads, uploadSeq, now, today, apiKey>>

\* -------------------------------------------------------- response generator
\* const arabicPattern: U+0600-06FF, U+0750-077F, U+08A0-08FF, U+FB50-FDFF, U+FE70-FEFF
IsArabic(ch) ==
    \/ ch \in 1536..1791
    \/ ch \in 1872..1919
    \/ ch \in 2208..2303
    \/ ch \in 64336..65023
    \/ ch \in 65136..65279

detectLanguage(text) == IF \E i \in 1..Len(text) : IsArabic(text[i]) THEN "ar" ELSE "en"

\* const responses = { keyword: {en, ar}, ... } in the order of the source;
\* text is a sequence of code points, a paragraph is cut to its first 8
responses == <<
    [keyword |-> <<99, 111, 110, 115, 116, 105, 116, 117, 116, 105, 111, 110>>,
     en |-> <<84, 104, 101, 32, 69, 103, 121, 112>>,
     ar |-> <<216, 175, 216, 179, 216, 170, 217, 710>>],
    [keyword |-> <<216, 175, 216, 179, 216, 170, 217, 710, 216, 177>>,
     en |-> <<84, 104, 101, 32, 69, 103, 121, 112>>,
     ar |-> <<216, 175, 216, 179, 216, 170, 217, 710>>],
    [keyword |-> <<217, 8230, 216, 181, 216, 177>>,
     en |-> <<69, 103, 121, 112, 116, 32, 111, 112>>,
     ar |-> <<216, 170, 216, 185, 217, 8230, 217, 8222>>],
    [keyword |-> <<101, 103, 121, 112, 116, 105, 97, 110>>,
     en |-> <<69, 103, 121, 112, 116, 32, 111, 112>>,
     ar |-> <<216, 170, 216, 185, 217, 8230, 217, 8222>>],
    [keyword |-> <<116, 101, 110, 97, 110, 116>>,
     en |-> <<85, 110, 100, 101, 114, 32, 69, 103>>,
     ar |-> <<217, 710, 217, 217, 8218, 216, 167, 217>>],
    [keyword |-> <<114, 101, 110, 116>>,
     en |-> <<69, 103, 121, 112, 116, 105, 97, 110>>,
     ar |-> <<217, 8218, 216, 167, 217, 8224, 217, 710>>],
    [keyword |-> <<216, 165, 217, 352, 216, 172, 216, 167, 216, 177>>,
     en |-> <<69, 103, 121, 112, 116, 105, 97, 110>>,
     ar |-> <<217, 8218, 216, 167, 217, 8224, 217, 710>>],
    [keyword |-> <<217, 8230, 216, 179, 216, 170, 216, 163, 216, 172, 216, 177>>,
     en |-> <<85, 110, 100, 101, 114, 32, 69, 103>>,
     ar |-> <<217, 710, 217, 217, 8218, 216, 167, 217>>],
    [keyword |-> <<99, 111, 109, 112, 108, 97, 105, 110, 116>>,
     en |-> <<73, 110, 32, 69, 103, 121, 112, 116>>,
     ar |-> <<217, 217, 352, 32, 217, 8230, 216, 181>>],
    [keyword |-> <<216, 180, 217, 402, 217, 710, 217, 8240>>,
     en |-> <<73, 110, 32, 69, 103, 121, 112, 116>>,
     ar |-> <<217, 217, 352, 32, 217, 8230, 216, 181>>],
    [keyword |-> <<115, 117, 101>>,
     en |-> <<73, 110, 32, 69, 103, 121, 112, 116>>,
     ar |-> <<217, 217, 352, 32, 216, 167, 217, 8222>>],
    [keyword |-> <<216, 175, 216, 185, 217, 710, 217, 8240>>,
     en |-> <<73, 110, 32, 69, 103, 121, 112, 116>>,
     ar |-> <<217, 217, 352, 32, 216, 167, 217, 8222>>],
    [keyword |-> <<99, 105, 118, 105, 108>>,
     en |-> <<69, 103, 121, 112, 116, 105, 97, 110>>,
     ar |-> <<216, 167, 217, 8222, 217, 8218, 216, 167>>],
    [keyword |-> <<217, 8230, 216, 175, 217, 8224, 217, 352>>,
     en |-> <<69, 103, 121, 112, 116, 105, 97, 110>>,
     ar |-> <<216, 167, 217, 8222, 217, 8218, 216, 167>>],
    [keyword |-> <<99, 114, 105, 109, 105, 110, 97, 108>>,
     en |-> <<69, 103, 121, 112, 116, 105, 97, 110>>,
     ar |-> <<216, 167, 217, 8222, 217, 8218, 216, 167>>],
    [keyword |-> <<216, 172, 217, 8224, 216, 167, 216, 166, 217, 352>>,
     en |-> <<69, 103, 121, 112, 116, 105, 97, 110>>,
     ar |-> <<216, 167, 217, 8222, 217, 8218, 216, 167>>],
    [keyword |-> <<99, 111, 110, 116, 114, 97, 99, 116>>,
     en |-> <<85, 110, 100, 101, 114, 32, 69, 103>>,
     ar |-> <<217, 710, 217, 217, 8218, 32, 216, 167>>],
    [keyword |-> <<216, 185, 217, 8218, 216, 175>>,
     en |-> <<85, 110, 100, 101, 114, 32, 69, 103>>,
     ar |-> <<217, 710, 217, 217, 8218, 32, 216, 167>>],
    [keyword |-> <<97, 103, 114, 101, 101, 109, 101, 110, 116>>,
     en |-> <<73, 110, 32, 69, 103, 121, 112, 116>>,
     ar |-> <<217, 217, 352, 32, 216, 167, 217, 8222>>],
    [keyword |-> <<216, 167, 216, 170, 217, 216, 167, 217, 8218>>,
     en |-> <<73, 110, 32, 69, 103, 121, 112, 116>>,
     ar |-> <<217, 217, 352, 32, 216, 167, 217, 8222>>],
    [keyword |-> <<114, 105, 103, 104, 116, 115>>,
     en |-> <<84, 104, 101, 32, 69, 103, 121, 112>>,
     ar |-> <<216, 175, 216, 179, 216, 170, 217, 710>>],
    [keyword |-> <<216, 173, 217, 8218, 217, 710, 217, 8218>>,
     en |-> <<84, 104, 101, 32, 69, 103, 121, 112>>,
     ar |-> <<216, 175, 216, 179, 216, 170, 217, 710>>],
    [keyword |-> <<108, 97, 119, 121, 101, 114>>,
     en |-> <<73, 110, 32, 69, 103, 121, 112, 116>>,
     ar |-> <<217, 217, 352, 32, 217, 8230, 216, 181>>],
    [keyword |-> <<217, 8230, 216, 173, 216, 167, 217, 8230, 217, 352>>,
     en |-> <<73, 110, 32, 69, 103, 121, 112, 116>>,
     ar |-> <<217, 217, 352, 32, 217, 8230, 216, 181>>],
    [keyword |-> <<217, 8230, 216, 173, 216, 167, 217, 8230>>,
     en |-> <<73, 110, 32, 69, 103, 121, 112, 116>>,
     ar |-> <<217, 217, 352, 32, 217, 8230, 216, 181>>],
    [keyword |-> <<108, 101, 103, 97, 108>>,
     en |-> <<69, 103, 121, 112, 116, 105, 97, 110>>,
     ar |-> <<216, 167, 217, 8222, 217, 8230, 216, 179>>],
    [keyword |-> <<217, 8218, 216, 167, 217, 8224, 217, 710, 217, 8224, 217, 352>>,
     en |-> <<69, 103, 121, 112, 116, 105, 97, 110>>,
     ar |-> <<216, 167, 217, 8222, 217, 8230, 216, 179>>]
>>

\* the file acknowledgement templates, cut like the paragraphs
FileAckAr == <<216, 180, 217, 402, 216, 177, 216, 167>>
FileAckEn == <<84, 104, 97, 110, 107, 32, 121, 111>>
GreetingAr == <<217, 8230, 216, 177, 216, 173, 216, 168>>
GreetingEn == <<72, 101, 108, 108, 111, 33, 32, 73>>
ThanksAr == <<216, 185, 217, 217, 710, 216, 167, 217>>
ThanksEn == <<89, 111, 117, 39, 114, 101, 32, 119>>
HelpAr == <<217, 352, 217, 8230, 217, 402, 217, 8224>>
HelpEn == <<73, 32, 99, 97, 110, 32, 104, 101>>
GenericAr == <<216, 163, 217, 217, 8225, 217, 8230, 32>>
GenericEn == <<73, 32, 117, 110, 100, 101, 114, 115>>

GreetingWords ==
    {<<104, 101, 108, 108, 111>>, <<104, 105>>, <<104, 101, 121>>,
     <<217, 8230, 216, 177, 216, 173, 216, 168, 216, 167>>,
     <<216, 167, 217, 8222, 216, 179, 217, 8222, 216, 167, 217, 8230>>,
     <<216, 163, 217, 8225, 217, 8222, 216, 167>>}
ThanksWords ==
    {<<116, 104, 97, 110, 107>>, <<216, 180, 217, 402, 216, 177>>,
     <<217, 8230, 216, 180, 217, 402, 217, 710, 216, 177>>}
HelpWords ==
    {<<104, 101, 108, 112>>,
     <<217, 8230, 216, 179, 216, 167, 216, 185, 216, 175, 216, 169>>}

\* the loop run from the last entry to the first
LastKeyword(message, i) ==
    LET found == {k \in i..Len(responses) : Includes(message, responses[k].keyword)}
    IN  IF found = {} THEN 0 ELSE CHOOSE k \in found : \A j \in found : j <= k

\* for (const [keyword, responseObj] of Object.entries(responses)): the index
\* of the first keyword the message includes, 0 when there is none
RECURSIVE FirstKeyword(_, _)
FirstKeyword(message, i) ==
    IF i > Len(responses) THEN 0
    ELSE IF Includes(message, responses[i].keyword) THEN i
    ELSE FirstKeyword(message, i + 1)

generateFallbackResponse(userMessage, files, detectedLang) ==
    LET message == Trim(ToLowerCase(userMessage))
        k == FirstKeyword(message, 1)
    IN  IF Len(files) > 0 THEN (IF detectedLang = "ar" THEN FileAckAr ELSE FileAckEn)
        ELSE IF k # 0
        THEN (IF detectedLang = "ar" /\ responses[k].ar # EmptyStr
              THEN responses[k].ar ELSE responses[k].en)
        ELSE IF \E w \in GreetingWords : Includes(message, w)
        THEN (IF detectedLang = "ar" THEN GreetingAr ELSE GreetingEn)
        ELSE IF \E w \in ThanksWords : Includes(message, w)
        THEN (IF detectedLang = "ar" THEN ThanksAr ELSE ThanksEn)
        ELSE IF \E w \in HelpWords : Includes(message, w)
        THEN (IF detectedLang = "ar" THEN HelpAr ELSE HelpEn)
        ELSE (IF detectedLang = "ar" THEN GenericAr ELSE GenericEn)

\* 'your-api-key-here'
PlaceholderKey == <<121, 111, 117, 114, 45, 97, 112, 105, 45, 107, 101, 121, 45, 104, 101, 114, 101>>
\* a key the operator configured ("sk")
RealKey == <<115, 107>>
ApiKeys == {EmptyStr, <<32, 32>>, PlaceholderKey, RealKey}

\* what openai.chat.completions.create can do: resolve with a completion whose
\* first choice has text content, resolve with no choice or no content
\* (a TypeError in the handler), or reject (401, 429, network)
Completions ==
    {[kind |-> "content", content |-> c] : c \in {TextOk, TextPadOk, Blank, EmptyStr}}
    \cup {[kind |-> k, content |-> EmptyStr] :
            k \in {"noChoice", "nullContent", "status401", "status429", "network"}}

\* if (!apiKey || apiKey.trim() === '' || apiKey === 'your-api-key-here')
KeyNotConfigured(key) == key = EmptyStr \/ Trim(key) = EmptyStr \/ key = PlaceholderKey

\* the same function without the check for an empty completion
generateAIResponseUnchecked(userMessage, files, key, completion) ==
    IF KeyNotConfigured(key)
    THEN generateFallbackResponse(userMessage, files, detectLanguage(userMessage))
    ELSE IF completion.kind = "content"
    THEN Trim(completion.content)
    ELSE generateFallbackResponse(userMessage, files, detectLanguage(userMessage))

\* async function generateAIResponse: completion is the outcome of the external
\* call, which is made only with a configured key.  A completion without a
\* choice or content, and one that is empty after trim, throw inside the try
\* block; the catch block answers every error with the static response.
\* const recentHistory = conversationHistory.slice(-6)
HistoryWindow == 6

recentHistory(conversationHistory) ==
    IF Len(conversationHistory) <= HistoryWindow THEN conversationHistory
    ELSE SubSeq(conversationHistory, Len(conversationHistory) - HistoryWindow + 1,
                Len(conversationHistory))

\* the messages array of the completion request: the system prompt (its text
\* abbreviated to "S"), the recent history, the current user turn
ApiMessages(userMessage, conversationHistory) ==
    <<[role |-> "system", content |-> <<83>>]>>
       \o recentHistory(conversationHistory)
       \o <<[role |-> "user", content |-> userMessage]>>

generateAIResponse(userMessage, files, key, completion) ==
    LET detectedLang == detectLanguage(userMessage) IN
    IF KeyNotConfigured(key)
    THEN generateFallbackResponse(userMessage, files, detectedLang)
    ELSE IF completion.kind = "content" /\ Trim(completion.content) # EmptyStr
    THEN Trim(completion.content)
    ELSE generateFallbackResponse(userMessage, files, detectedLang)

\* ------------------------------------------------------------------ uploads
\* limits: { fileSize: 10 * 1024 * 1024, files: 10 }
FileSizeLimit == 10485760
FilesLimit == 10

\* the index of the last '.' of a file name, 0 when there is none
LastDot(name) ==
    IF \E i \in 1..Len(name) : name[i] = 46
    THEN CHOOSE i \in 1..Len(name) :
            name[i] = 46 /\ \A j \in (i + 1)..Len(name) : name[j] # 46
    ELSE 0

\* path.extname(file.originalname).toLowerCase().replace('.', '')
ExtName(name) ==
    IF LastDot(name) <= 1 THEN EmptyStr
    ELSE ToLowerCase(SubSeq(name, LastDot(name) + 1, Len(name)))

\* /pdf|doc|docx|txt|jpg|jpeg|png/i
AllowedTypes ==
    {<<112, 100, 102>>, <<100, 111, 99>>, <<100, 111, 99, 120>>, <<116, 120, 116>>,
     <<106, 112, 103>>, <<106, 112, 101, 103>>, <<112, 110, 103>>}

\* 'pdf', 'msword', 'wordprocessingml', 'text/plain', 'image/jpeg', 'image/jpg', 'image/png'
AllowedMimeParts ==
    {<<112, 100, 102>>, <<109, 115, 119, 111, 114, 100>>,
     <<119, 111, 114, 100, 112, 114, 111, 99, 101, 115, 115, 105, 110, 103, 109, 108>>,
     <<116, 101, 120, 116, 47, 112, 108, 97, 105, 110>>,
     <<105, 109, 97, 103, 101, 47, 106, 112, 101, 103>>,
     <<105, 109, 97, 103, 101, 47, 106, 112, 103>>,
     <<105, 109, 97, 103, 101, 47, 112, 110, 103>>}

\* fileFilter: hasValidExtension || hasValidMimetype
fileFilter(file) ==
    \/ \E t \in AllowedTypes : Includes(ExtName(file.originalname), t)
    \/ \E t \in AllowedMimeParts : Includes(ToLowerCase(file.mimetype), t)

\* the same without the limit on the number of files
RECURSIVE UploadErrorAnyCount(_, _, _)
UploadErrorAnyCount(files, i, atLimit) ==
    IF i > Len(files) THEN ""
    ELSE IF ~fileFilter(files[i]) THEN "File type not allowed."
    ELSE IF files[i].size > FileSizeLimit \/ (atLimit /\ files[i].size = FileSizeLimit)
    THEN "File size too large. Maximum size is 10MB per file."
    ELSE UploadErrorAnyCount(files, i + 1, atLimit)

\* the first error upload.any() meets while it reads the files in order.
\* multer hands the limits to busboy, which is installed with it: the
\* releases that compare the bytes read with `> fileSize` let a file of
\* exactly fileSize bytes through, the releases that stop reading at
\* fileSize bytes report the limit for it; atLimit tells which is installed.
RECURSIVE UploadError(_, _, _)
UploadError(files, i, atLimit) ==
    IF i > Len(files) THEN ""
    ELSE IF i > FilesLimit THEN "Too many files. Maximum 10 files allowed."
    ELSE IF ~fileFilter(files[i]) THEN "File type not allowed."
    ELSE IF files[i].size > FileSizeLimit \/ (atLimit /\ files[i].size = FileSizeLimit)
    THEN "File size too large. Maximum size is 10MB per file."
    ELSE UploadError(files, i + 1, atLimit)

\* the answers of the upload stage the installed releases can give
UploadErrors(files) == {UploadError(files, 1, atLimit) : atLimit \in BOOLEAN}

\* "a.pdf", application/pdf
PdfFile ==
    [originalname |-> <<97, 46, 112, 100, 102>>,
     mimetype |-> <<97, 112, 112, 108, 105, 99, 97, 116, 105, 111, 110, 47, 112, 100, 102>>,
     size |-> 1024]
\* "a.exe", application/x-msdownload
ExeFile ==
    [originalname |-> <<97, 46, 101, 120, 101>>,
     mimetype |-> <<97, 112, 112, 108, 105, 99, 97, 116, 105, 111, 110, 47, 120, 45,
                    109, 115, 100, 111, 119, 110, 108, 111, 97, 100>>,
     size |-> 1024]
BigFile == [PdfFile EXCEPT !.size = FileSizeLimit + 1]
\* "a.pdfx", application/octet-stream
PdfxFile ==
    [originalname |-> <<97, 46, 112, 100, 102, 120>>,
     mimetype |-> <<97, 112, 112, 108, 105, 99, 97, 116, 105, 111, 110, 47, 111, 99,
                    116, 101, 116, 45, 115, 116, 114, 101, 97, 109>>,
     size |-> 1024]

\* the file lists a request carries
FileLists == {<<>>, <<PdfFile>>, <<ExeFile>>, <<BigFile>>}

\* the messages and conversation ids a chat request carries
ChatMessages == {EmptyStr, TextHi}
ChatIds == 0..MaxConvs

\* ---------------------------------------------------------------- POST /chat
\* rows the chat requests in flight will still insert
PendingConvs ==
    Cardinality({s \in Sessions : reqs[s].op = "chat" /\ reqs[s].pc = "handler"
                                    /\ reqs[s].chatId = 0
                                    /\ Truthy(reqs[s].sess.userId)})
PendingMsgs(s) ==
    IF reqs[s].op # "chat" \/ ~Truthy(reqs[s].sess.userId) THEN 0
    ELSE IF reqs[s].pc \in {"handler", "history", "saveUser"} THEN 2
    ELSE IF reqs[s].pc \in {"touch1", "generate", "completion", "saveAi"} THEN 1
    ELSE 0

RECURSIVE SumPendingMsgs(_)
SumPendingMsgs(S) ==
    IF S = {} THEN 0
    ELSE LET s == CHOOSE x \in S : TRUE IN PendingMsgs(s) + SumPendingMsgs(S \ {s})

\* fileInfo = `\n\n[User uploaded ${files.length} file(s): ${fileNames}]`, cut
\* to its first characters and the count
FileNote(files) ==
    IF Len(files) = 0 THEN EmptyStr ELSE <<10, 10, 91, 85, 48 + Len(files)>>

\* the multer middleware upload.any(): every file of the request is checked
\* and written to ./uploads; on an error multer removes what it wrote and the
\* callback answers 400
ChatReceive(s, message, cid, files) ==
    /\ reqs[s] = Idle
    /\ \E err \in UploadErrors(files) :
       IF err # ""
       THEN /\ last' = Response("chat", s, sessionStore[s], cid, 0, 400, err, <<>>)
            /\ UNCHANGED <<reqs, uploads, uploadSeq>>
       ELSE /\ Len(files) > 0 => uploadSeq < MaxUploads
            /\ Truthy(sessionStore[s].userId) =>
                  /\ cid = 0 => convSeq + PendingConvs + 1 <= MaxConvs
                  /\ msgSeq + SumPendingMsgs(Sessions) + 2 <= MaxMsgs
            /\ uploadSeq' = uploadSeq + Len(files)
            /\ uploads' = uploads \cup ((uploadSeq + 1)..uploadSeq')
            /\ reqs' = [reqs EXCEPT ![s] = [Idle EXCEPT !.op = "chat",
                  !.pc = "handler", !.sess = sessionStore[s], !.chatId = cid,
                  !.arg = message,
                  !.files = [i \in 1..Len(files) |->
                                [originalname |-> files[i].originalname,
                                 mimetype |-> files[i].mimetype,
                                 size |-> files[i].size, path |-> uploadSeq + i]]]]
            /\ UNCHANGED last
    /\ UNCHANGED <<dbVars, sessionStore, now, today, apiKey>>

\* the handler up to "Get or create conversation"
ChatResolve(s) ==
    /\ reqs[s].op = "chat" /\ reqs[s].pc = "handler"
    /\ LET r == reqs[s] IN
       IF ~Truthy(r.sess.userId)
       THEN /\ last' = Unauthenticated("chat", s)
            /\ reqs' = [reqs EXCEPT ![s] = Idle]
            /\ UNCHANGED <<conversations, convSeq>>
       ELSE IF Trim(r.arg) = EmptyStr /\ Len(r.files) = 0
       THEN /\ last' = Response("chat", s, r.sess, r.chatId, 0, 400,
                                "Message or file is required", <<>>)
            /\ reqs' = [reqs EXCEPT ![s] = Idle]
            /\ UNCHANGED <<conversations, convSeq>>
       ELSE IF r.chatId = 0
       THEN /\ convSeq' = convSeq + 1
            /\ conversations' = conversations @@ (convSeq' :>
                  ConversationRow(IdToString(r.sess.userId),
                      IF Substring0(r.arg, 50) = EmptyStr THEN NewChatTitle
                      ELSE Substring0(r.arg, 50), now))
            /\ reqs' = [reqs EXCEPT ![s].pc = "history", ![s].chatId = convSeq']
            /\ UNCHANGED last
       ELSE IF SelectConversation(r.chatId, IdToString(r.sess.userId)) = {}
       THEN /\ last' = Response("chat", s, r.sess, r.chatId, 0, 403,
                                "Conversation not found or access denied", <<>>)
            /\ reqs' = [reqs EXCEPT ![s] = Idle]
            /\ UNCHANGED <<conversations, convSeq>>
       ELSE /\ reqs' = [reqs EXCEPT ![s].pc = "history"]
            /\ UNCHANGED <<conversations, convSeq, last>>
    /\ UNCHANGED <<users, messages, msgSeq, bookings, sessionStore, uploads,
                   uploadSeq, now, today, apiKey>>

\* SELECT role, content FROM messages WHERE conversation_id = ?
\* ORDER BY created_at ASC LIMIT 10
HistoryLimit == 10

ChatHistory(s) ==
    /\ reqs[s].op = "chat" /\ reqs[s].pc = "history"
    /\ \E rows \in SelectMessagesOf(reqs[s].chatId) :
          reqs' = [reqs EXCEPT ![s].pc = "saveUser",
                     ![s].hist = [i \in 1..(IF Len(rows) < HistoryLimit THEN Len(rows)
                                            ELSE HistoryLimit) |->
                          [role |-> IF messages[rows[i]].role = "user" THEN "user"
                                    ELSE "assistant",
                           content |-> messages[rows[i]].content]]]
    /\ UNCHANGED <<dbVars, sessionStore, uploads, uploadSeq, now, today, apiKey, last>>

\* INSERT INTO messages (conversation_id, role, content, file_info): the user turn
ChatSaveUser(s) ==
    /\ reqs[s].op = "chat" /\ reqs[s].pc = "saveUser"
    /\ LET r == reqs[s] IN
       /\ msgSeq' = msgSeq + 1
       /\ messages' = messages @@ (msgSeq' :>
             MessageRow(r.chatId, "user", r.arg \o FileNote(r.files),
                        [i \in 1..Len(r.files) |->
                            [name |-> r.files[i].originalname, size |-> r.files[i].size,
                             mimetype |-> r.files[i].mimetype]], now))
    /\ reqs' = [reqs EXCEPT ![s].pc = "touch1"]
    /\ UNCHANGED <<users, conversations, convSeq, bookings, sessionStore, uploads,
                   uploadSeq, now, today, apiKey, last>>

ChatTouchUser(s) ==
    /\ reqs[s].op = "chat" /\ reqs[s].pc = "touch1"
    /\ conversations' = TouchConversation(reqs[s].chatId)
    /\ reqs' = [reqs EXCEPT ![s].pc = "generate"]
    /\ UNCHANGED <<users, convSeq, messages, msgSeq, bookings, sessionStore, uploads,
                   uploadSeq, now, today, apiKey, last>>

\* generateAIResponse up to `await openai.chat.completions.create(...)`: with
\* no key configured the function returns before the call, otherwise the call
\* ends with one of the outcomes
ChatCallApi(s, completion) ==
    /\ reqs[s].op = "chat" /\ reqs[s].pc = "generate"
    /\ IF KeyNotConfigured(apiKey) THEN completion = NotCalled
       ELSE completion \in Completions
    /\ reqs' = [reqs EXCEPT ![s].pc = "completion", ![s].completion = completion]
    /\ UNCHANGED <<dbVars, sessionStore, uploads, uploadSeq, now, today, apiKey, last>>

\* const aiResponse = await generateAIResponse(userQuery, files, conversationHistory)
ChatGenerate(s) ==
    /\ reqs[s].op = "chat" /\ reqs[s].pc = "completion"
    /\ reqs' = [reqs EXCEPT ![s].pc = "saveAi",
                  ![s].reply = generateAIResponse(reqs[s].arg \o FileNote(reqs[s].files),
                                                  reqs[s].files, apiKey, reqs[s].completion)]
    /\ UNCHANGED <<dbVars, sessionStore, uploads, uploadSeq, now, today, apiKey, last>>

\* INSERT INTO messages (conversation_id, role, content): the generated turn
ChatSaveAi(s) ==
    /\ reqs[s].op = "chat" /\ reqs[s].pc = "saveAi"
    /\ msgSeq' = msgSeq + 1
    /\ messages' = messages @@ (msgSeq' :>
          MessageRow(reqs[s].chatId, "ai", reqs[s].reply, <<>>, now))
    /\ reqs' = [reqs EXCEPT ![s].pc = "touch2"]
    /\ UNCHANGED <<users, conversations, convSeq, bookings, sessionStore, uploads,
                   uploadSeq, now, today, apiKey, last>>

\* the second timestamp update, the clean-up of the uploaded files, the response
ChatFinish(s) ==
    /\ reqs[s].op = "chat" /\ reqs[s].pc = "touch2"
    /\ LET r == reqs[s] IN
       /\ conversations' = TouchConversation(r.chatId)
       /\ uploads' = uploads \ {r.files[i].path : i \in 1..Len(r.files)}
       /\ last' = Response("chat", s, r.sess, r.chatId, 0, 200, "ok", <<>>)
    /\ reqs' = [reqs EXCEPT ![s] = Idle]
    /\ UNCHANGED <<users, convSeq, messages, msgSeq, bookings, sessionStore,
                   uploadSeq, now, today, apiKey>>

\* the error.message of a rejected sqlite3 call
DatastoreErrors == {"SQLITE_BUSY: database is locked"}

\* a datastore call of the handler rejects with `error`: the catch block
\* answers 500 with 'Error processing chat request: ' + error.message
ChatDatastoreError(s, error) ==
    /\ reqs[s].op = "chat"
    /\ \/ reqs[s].pc \in {"history", "saveUser", "touch1", "saveAi", "touch2"}
       \/ /\ reqs[s].pc = "handler"
          /\ Truthy(reqs[s].sess.userId)
          /\ ~(Trim(reqs[s].arg) = EmptyStr /\ Len(reqs[s].files) = 0)
    /\ last' = [Response("chat", s, reqs[s].sess, reqs[s].chatId, 0, 500,
                         "Error processing chat request: ", <<>>)
                   EXCEPT !.detail = error]
    /\ reqs' = [reqs EXCEPT ![s] = Idle]
    /\ UNCHANGED <<dbVars, sessionStore, uploads, uploadSeq, now, today, apiKey>>

\* ----------------------------------------------------------- register, login
\* bcrypt.hash(password, 10): a salted digest; compare recomputes the digest
\* of the candidate with the stored salt.  The key schedule of bcrypt reads
\* 72 bytes of the password, so what follows them has no part in the digest.
Salts == {1, 2}
BcryptMaxBytes == 72
KeyBytes(password) ==
    SubSeq(password, 1, IF Len(password) < BcryptMaxBytes THEN Len(password)
                        ELSE BcryptMaxBytes)
Digest(password, salt) ==
    [i \in 1..Len(KeyBytes(password)) |-> KeyBytes(password)[i] + salt]
Hash(password, salt) == [salt |-> salt, digest |-> Digest(password, salt)]

\* a comparison that accepts every password
CompareAlways(password, hash) == TRUE

Compare(password, hash) == Digest(password, hash.salt) = hash.digest

\* "secre", "secret", "secret1"
Pw5 == <<115, 101, 99, 114, 101>>
Pw6 == <<115, 101, 99, 114, 101, 116>>
Pw7 == <<115, 101, 99, 114, 101, 116, 49>>
\* 72 times "a", and the same followed by "b" and by "c"
Pw72 == [i \in 1..BcryptMaxBytes |-> 97]
Pw73b == Pw72 \o <<98>>
Pw73c == Pw72 \o <<99>>
MinPasswordLength == 6

Names == {"", "Alice"}
Emails == {"", "a@x.com", "b@x.com"}
Passwords == {EmptyStr, Pw5, Pw6, Pw7}

\* SELECT * FROM users WHERE email = ?
SelectUserByEmail(email) == {i \in 1..Len(users) : users[i].email = email}

\* a length check that lets every password through
PasswordNeverTooShort(password) == FALSE

\* if (password.length < 6)
PasswordTooShort(password) == Len(password) < MinPasswordLength

\* a users table whose email column is not UNIQUE
UniqueEmailNotEnforced(email) == FALSE

\* email TEXT UNIQUE NOT NULL: the INSERT of a second row with the e-mail fails
UniqueEmailViolated(email) == \E i \in 1..Len(users) : users[i].email = email

PendingUsers ==
    Cardinality({s \in Sessions : reqs[s].op = "register"})

\* POST /api/register: validation and the existence query
Register(s, name, email, password, confirmPassword) ==
    /\ reqs[s] = Idle
    /\ LET sess == sessionStore[s]
           reject(msg) ==
               /\ last' = Response("register", s, sess, 0, 0, 400, msg, <<>>)
               /\ UNCHANGED reqs
       IN
       IF name = "" \/ email = "" \/ password = EmptyStr \/ confirmPassword = EmptyStr
       THEN reject("All fields are required")
       ELSE IF password # confirmPassword
       THEN reject("Passwords do not match")
       ELSE IF PasswordTooShort(password)
       THEN reject("Password must be at least 6 characters")
       ELSE IF SelectUserByEmail(email) # {}
       THEN reject("Email already registered")
       ELSE /\ Len(users) + PendingUsers < MaxUsers
            /\ reqs' = [reqs EXCEPT ![s] = [Idle EXCEPT !.op = "register",
                           !.pc = "insert", !.sess = sess, !.name = name,
                           !.email = email, !.password = password]]
            /\ UNCHANGED last
    /\ UNCHANGED <<dbVars, sessionStore, uploads, uploadSeq, now, today, apiKey>>

\* POST /api/register: the hash, INSERT INTO users (email UNIQUE), the session
\* fields and the response; a UNIQUE constraint error answers 400
RegisterInsert(s) ==
    /\ reqs[s].op = "register" /\ reqs[s].pc = "insert"
    /\ LET r == reqs[s] IN
       IF UniqueEmailViolated(r.email)
       THEN /\ last' = Response("register", s, r.sess, 0, 0, 400,
                                "Email already registered", <<>>)
            /\ UNCHANGED <<users, sessionStore>>
       ELSE \E salt \in Salts :
            /\ users' = Append(users, [id |-> Len(users) + 1, name |-> r.name,
                                       email |-> r.email,
                                       password |-> Hash(r.password, salt)])
            /\ sessionStore' = [sessionStore EXCEPT ![s] =
                  [r.sess EXCEPT !.userId = Num(Len(users) + 1),
                                 !.userEmail = r.email, !.userName = r.name]]
            /\ last' = Response("register", s, sessionStore'[s], 0, 0, 200,
                                "Registration successful", <<Len(users) + 1>>)
    /\ reqs' = [reqs EXCEPT ![s] = Idle]
    /\ UNCHANGED <<conversations, convSeq, messages, msgSeq, bookings, uploads,
                   uploadSeq, now, today, apiKey>>

\* POST /api/login
Login(s, email, password) ==
    /\ reqs[s] = Idle
    /\ LET sess == sessionStore[s]
           found == SelectUserByEmail(email)
           user == users[CHOOSE i \in found : TRUE]
       IN
       IF email = "" \/ password = EmptyStr
       THEN /\ last' = Response("login", s, sess, 0, 0, 400,
                                "Email and password are required", <<>>)
            /\ UNCHANGED sessionStore
       ELSE IF found = {} \/ ~Compare(password, user.password)
       THEN /\ last' = Response("login", s, sess, 0, 0, 401,
                                "Invalid email or password", <<>>)
            /\ UNCHANGED sessionStore
       ELSE /\ sessionStore' = [sessionStore EXCEPT ![s] =
                  [sess EXCEPT !.userId = Num(user.id), !.userEmail = user.email,
                               !.userName = user.name]]
            /\ last' = Response("login", s, sessionStore'[s], 0, 0, 200,
                                "Login successful", <<user.id>>)
    /\ UNCHANGED <<dbVars, uploads, uploadSeq, now, today, apiKey, reqs>>

\* GET /api/dashboard
Dashboard(s) ==
    /\ reqs[s] = Idle
    /\ LET sess == sessionStore[s]
           found == {i \in 1..Len(users) : Num(users[i].id) = sess.userId}
       IN
       IF ~Truthy(sess.userId)
       THEN last' = Unauthenticated("dashboard", s)
       ELSE IF sess.isGuest \/ sess.userId = Str(GuestId)
       THEN last' = [Response("dashboard", s, sess, 0, 0, 200, "guest", <<>>)
                        EXCEPT !.uid = GuestId, !.isGuest = TRUE]
       ELSE IF found = {}
       THEN last' = Response("dashboard", s, sess, 0, 0, 404, "User not found", <<>>)
       ELSE last' = [Response("dashboard", s, sess, 0, 0, 200, "user",
                              <<CHOOSE i \in found : TRUE>>) EXCEPT !.isGuest = FALSE]
    /\ UNCHANGED <<dbVars, sessionStore, uploads, uploadSeq, now, today, apiKey, reqs>>

\* ----------------------------------------------------------------- bookings
\* const lawyers = { 1: ..., 12: ... }
NumLawyers == 12

\* appointmentDate as the client sends it: empty, text that is no date, or the
\* date of a day
NoDate == [kind |-> "empty", day |-> 0]
BadDate == [kind |-> "text", day |-> 0]
DateOf(d) == [kind |-> "date", day |-> d]

\* selectedDate < today, false when selectedDate is an Invalid Date
BeforeToday(date) == date.kind = "date" /\ date.day < today

GoodBooking ==
    [lawyerId |-> 1, clientName |-> "N", clientEmail |-> "n@x.com",
     clientPhone |-> "555", appointmentDate |-> DateOf(1),
     appointmentTime |-> "10:00", caseDescription |-> "case"]

\* the booking forms a request carries: the complete one and the ones with
\* one field missing or out of range
BookingForms ==
    {GoodBooking}
    \cup {[GoodBooking EXCEPT !.lawyerId = l] : l \in {0, NumLawyers + 1}}
    \cup {[GoodBooking EXCEPT !.appointmentDate = d] :
             d \in {NoDate, BadDate, DateOf(0), DateOf(2)}}
    \cup {[GoodBooking EXCEPT !.clientName = ""], [GoodBooking EXCEPT !.clientEmail = ""],
          [GoodBooking EXCEPT !.clientPhone = ""], [GoodBooking EXCEPT !.appointmentTime = ""],
          [GoodBooking EXCEPT !.caseDescription = ""]}

\* POST /api/booking
Booking(s, form) ==
    /\ reqs[s] = Idle
    /\ LET sess == sessionStore[s]
           reject(msg) ==
               /\ last' = Response("booking", s, sess, 0, 0, 400, msg, <<>>)
               /\ UNCHANGED bookings
       IN
       IF ~Truthy(sess.userId)
       THEN /\ last' = Unauthenticated("booking", s)
            /\ UNCHANGED bookings
       ELSE IF \/ form.lawyerId = 0 \/ form.clientName = "" \/ form.clientEmail = ""
               \/ form.clientPhone = "" \/ form.appointmentDate.kind = "empty"
               \/ form.appointmentTime = "" \/ form.caseDescription = ""
       THEN reject("All fields are required")
       ELSE IF BeforeToday(form.appointmentDate)
       THEN reject("Appointment date must be in the future")
       ELSE IF form.lawyerId \notin 1..NumLawyers
       THEN reject("Invalid lawyer selected")
       ELSE /\ Len(bookings) < MaxBookings
            /\ bookings' = Append(bookings,
                  [user_id |-> IdToString(sess.userId), lawyer_id |-> form.lawyerId,
                   client_name |-> form.clientName, client_email |-> form.clientEmail,
                   client_phone |-> form.clientPhone,
                   appointment_date |-> form.appointmentDate,
                   appointment_time |-> form.appointmentTime,
                   case_description |-> form.caseDescription, status |-> "pending",
                   created_at |-> now, created_day |-> today])
            /\ last' = Response("booking", s, sess, 0, 0, 200,
                                "Appointment booked successfully", <<Len(bookings) + 1>>)
    /\ UNCHANGED <<users, conversations, convSeq, messages, msgSeq, sessionStore,
                   uploads, uploadSeq, now, today, apiKey, reqs>>

\* SELECT * FROM bookings WHERE user_id = ? ORDER BY appointment_date DESC,
\* appointment_time DESC
SelectBookingsOf(userId) ==
    LET S == {b \in 1..Len(bookings) : bookings[b].user_id = userId}
    IN {q \in Orderings(S) :
          \A i, j \in 1..Len(q) : i < j =>
              bookings[q[i]].appointment_date.day >= bookings[q[j]].appointment_date.day}

\* GET /api/bookings
ListBookings(s) ==
    /\ reqs[s] = Idle
    /\ LET sess == sessionStore[s] IN
       IF ~Truthy(sess.userId)
       THEN last' = Unauthenticated("listBookings", s)
       ELSE \E rows \in SelectBookingsOf(IdToString(sess.userId)) :
               last' = Response("listBookings", s, sess, 0, 0, 200, "ok", rows)
    /\ UNCHANGED <<dbVars, sessionStore, uploads, uploadSeq, now, today, apiKey, reqs>>

\* -------------------------------------------------------------------- clock
\* a second of wall-clock time passes
Tick ==
    /\ now < MaxTime
    /\ now' = now + 1
    /\ UNCHANGED <<dbVars, sessionStore, uploads, uploadSeq, today, apiKey, reqs, last>>

\* ------------------------------------------------------------ specification
Titles == {EmptyStr, Blank, TextPadOk}
Contents == {EmptyStr, Blank, TextPadOk}
MessageIds == 0..MaxMsgs

\* the state after the server has started on an empty database
Init ==
    /\ users = <<>>
    /\ sessionStore = [s \in Sessions |-> EmptySession]
    /\ conversations = <<>>
    /\ convSeq = 0
    /\ messages = <<>>
    /\ msgSeq = 0
    /\ bookings = <<>>
    /\ uploads = {}
    /\ uploadSeq = 0
    /\ now = 0
    /\ today = 1
    /\ apiKey \in {EmptyStr, RealKey}
    /\ reqs = [s \in Sessions |-> Idle]
    /\ last = NoResponse

Next ==
    \/ Tick
    \/ \E s \in Sessions :
         \/ Guest(s)
         \/ Logout(s)
         \/ CheckSession(s)
         \/ \E n \in Names, e \in Emails, p \in Passwords, c \in Passwords :
               Register(s, n, e, p, c)
         \/ RegisterInsert(s)
         \/ \E e \in Emails, p \in Passwords : Login(s, e, p)
         \/ Dashboard(s)
         \/ ListChats(s)
         \/ \E c \in ChatIds : GetChat(s, c)
         \/ \E t \in Titles : CreateChat(s, t)
         \/ \E c \in ChatIds, t \in Titles : RenameChat(s, c, t)
         \/ RenameChatUpdate(s)
         \/ \E c \in ChatIds : DeleteChat(s, c)
         \/ DeleteChatDelete(s)
         \/ \E c \in ChatIds, m \in MessageIds, t \in Contents : EditMessage(s, c, m, t)
         \/ EditMessageUpdate(s)
         \/ EditMessageTouch(s)
         \/ \E c \in ChatIds, m \in MessageIds : DeleteMessage(s, c, m)
         \/ DeleteMessageDelete(s)
         \/ DeleteMessageTouch(s)
         \/ \E m \in ChatMessages, c \in ChatIds, f \in FileLists : ChatReceive(s, m, c, f)
         \/ ChatResolve(s)
         \/ ChatHistory(s)
         \/ ChatSaveUser(s)
         \/ ChatTouchUser(s)
         \/ \E k \in Completions \cup {NotCalled} : ChatCallApi(s, k)
         \/ ChatGenerate(s)
         \/ ChatSaveAi(s)
         \/ ChatFinish(s)
         \/ \E e \in DatastoreErrors : ChatDatastoreError(s, e)
         \/ \E f \in BookingForms : Booking(s, f)
         \/ ListBookings(s)

Spec == Init /\ [][Next]_vars

\* ------------------------------------------- focused specifications: inputs
\* the session data register and login leave for user row i
UserSession(i) ==
    [userId |-> Num(i), userEmail |-> users[i].email, userName |-> users[i].name,
     isGuest |-> FALSE]

\* the bodies POST /api/chat is sent with: a message, a message with an
\* accepted file, nothing at all, a message with a refused file
ChatForms ==
    {[message |-> TextHi, files |-> <<>>], [message |-> TextHi, files |-> <<PdfFile>>],
     [message |-> EmptyStr, files |-> <<>>], [message |-> TextHi, files |-> <<ExeFile>>]}

\* ------------------------------------------------------ stored conversations
\* Two registered users, each logged in on one client.  User 1 has had one
\* chat turn ("hi", answered by the static greeting within the same second),
\* user 2 has created an empty conversation and booked an appointment; a
\* second later the clients read, rename, edit and delete.
InitStore ==
    /\ users = <<[id |-> 1, name |-> "Alice", email |-> "a@x.com",
                  password |-> Hash(Pw6, 1)],
                 [id |-> 2, name |-> "Alice", email |-> "b@x.com",
                  password |-> Hash(Pw7, 1)]>>
    /\ sessionStore = [s \in Sessions |-> IF s = "c1" THEN UserSession(1) ELSE UserSession(2)]
    /\ conversations = <<ConversationRow("1", TextHi, 0), ConversationRow("2", NewChatTitle, 0)>>
    /\ convSeq = 2
    /\ messages = <<MessageRow(1, "user", TextHi, <<>>, 0),
                    MessageRow(1, "ai", GreetingEn, <<>>, 0)>>
    /\ msgSeq = 2
    /\ bookings = <<[user_id |-> "2", lawyer_id |-> GoodBooking.lawyerId,
                     client_name |-> GoodBooking.clientName,
                     client_email |-> GoodBooking.clientEmail,
                     client_phone |-> GoodBooking.clientPhone,
                     appointment_date |-> GoodBooking.appointmentDate,
                     appointment_time |-> GoodBooking.appointmentTime,
                     case_description |-> GoodBooking.caseDescription,
                     status |-> "pending", created_at |-> 0, created_day |-> 1]>>
    /\ uploads = {}
    /\ uploadSeq = 0
    /\ now = 1
    /\ today = 1
    /\ apiKey = EmptyStr
    /\ reqs = [s \in Sessions |-> Idle]
    /\ last = NoResponse

NextStore ==
    \E s \in Sessions :
       \/ ListChats(s)
       \/ ListBookings(s)
       \/ \E c \in ChatIds : GetChat(s, c)
       \/ \E c \in ChatIds, t \in Titles : RenameChat(s, c, t)
       \/ RenameChatUpdate(s)
       \/ \E c \in ChatIds : DeleteChat(s, c)
       \/ DeleteChatDelete(s)
       \/ \E c \in ChatIds, m \in MessageIds, t \in Contents : EditMessage(s, c, m, t)
       \/ EditMessageUpdate(s)
       \/ EditMessageTouch(s)
       \/ \E c \in ChatIds, m \in MessageIds : DeleteMessage(s, c, m)
       \/ DeleteMessageDelete(s)
       \/ DeleteMessageTouch(s)

SpecStore == InitStore /\ [][NextStore]_vars

\* --------------------------------------------------- chat on a fresh account
\* One registered user logged in on client c1, client c2 without identity,
\* an OpenAI key configured; the clients chat and read conversations while
\* the clock runs.
InitChat ==
    /\ users = <<[id |-> 1, name |-> "Alice", email |-> "a@x.com",
                  password |-> Hash(Pw6, 1)]>>
    /\ sessionStore = [s \in Sessions |-> IF s = "c1" THEN UserSession(1) ELSE EmptySession]
    /\ conversations = <<>>
    /\ convSeq = 0
    /\ messages = <<>>
    /\ msgSeq = 0
    /\ bookings = <<>>
    /\ uploads = {}
    /\ uploadSeq = 0
    /\ now = 0
    /\ today = 1
    /\ apiKey = RealKey
    /\ reqs = [s \in Sessions |-> Idle]
    /\ last = NoResponse

NextChat ==
    \/ Tick
    \/ \E s \in {"c1"} :
         \/ \E c \in ChatIds : GetChat(s, c)
         \/ \E f \in ChatForms, c \in ChatIds : ChatReceive(s, f.message, c, f.files)
         \/ ChatResolve(s)
         \/ ChatHistory(s)
         \/ ChatSaveUser(s)
         \/ ChatTouchUser(s)
         \/ \E k \in Completions \cup {NotCalled} : ChatCallApi(s, k)
         \/ ChatGenerate(s)
         \/ ChatSaveAi(s)
         \/ ChatFinish(s)
         \/ \E e \in DatastoreErrors : ChatDatastoreError(s, e)
    \/ ChatReceive("c2", TextHi, 0, <<PdfFile>>)
    \/ ChatResolve("c2")

SpecChat == InitChat /\ [][NextChat]_vars

\* ------------------------------------------------------ the reply generator
\* "thank", "help", a text with an Arabic letter, the first keyword of the table
TextThank == <<116, 104, 97, 110, 107>>
TextHelp == <<104, 101, 108, 112>>
TextArabic == <<1605>>
\* "hi", "ok", "thank", "help", an Arabic letter, "constitution", and texts
\* that meet more than one branch: "tenant rent", "RENT", "hi legal",
\* "hey thank", "thank help", an Arabic letter before " rent", and the bytes
\* of the second keyword of the table as the source file holds them
GenMessages ==
    {TextHi, TextOk, TextThank, TextHelp, TextArabic, responses[1].keyword,
     <<116, 101, 110, 97, 110, 116, 32, 114, 101, 110, 116>>,
     <<82, 69, 78, 84>>,
     <<104, 105, 32, 108, 101, 103, 97, 108>>,
     <<104, 101, 121, 32, 116, 104, 97, 110, 107>>,
     <<116, 104, 97, 110, 107, 32, 104, 101, 108, 112>>,
     <<1605, 32, 114, 101, 110, 116>>,
     responses[2].keyword}

\* req.files of a request that carried PdfFile
StoredPdf ==
    <<[originalname |-> PdfFile.originalname, mimetype |-> PdfFile.mimetype,
       size |-> PdfFile.size, path |-> 1]>>

\* A chat request of user 1 that has stored its user turn in a new
\* conversation and is about to call generateAIResponse, for every message,
\* file list and configured key.
InitGen ==
    \E message \in GenMessages, files \in {<<>>, StoredPdf}, key \in ApiKeys :
    /\ users = <<[id |-> 1, name |-> "Alice", email |-> "a@x.com",
                  password |-> Hash(Pw6, 1)]>>
    /\ sessionStore = [s \in Sessions |-> IF s = "c1" THEN UserSession(1) ELSE EmptySession]
    /\ conversations = <<ConversationRow("1", Substring0(message, 50), 0)>>
    /\ convSeq = 1
    /\ messages = <<MessageRow(1, "user", message \o FileNote(files),
                               [i \in 1..Len(files) |->
                                   [name |-> files[i].originalname, size |-> files[i].size,
                                    mimetype |-> files[i].mimetype]], 0)>>
    /\ msgSeq = 1
    /\ bookings = <<>>
    /\ uploads = {files[i].path : i \in 1..Len(files)}
    /\ uploadSeq = Len(files)
    /\ now = 0
    /\ today = 1
    /\ apiKey = key
    /\ reqs = [s \in Sessions |->
                 IF s = "c1"
                 THEN [Idle EXCEPT !.op = "chat", !.pc = "generate",
                                   !.sess = UserSession(1), !.chatId = 1,
                                   !.arg = message, !.files = files]
                 ELSE Idle]
    /\ last = NoResponse

\* Two clients logged in as user 1, who owns the empty conversation 1: c1
\* sends a chat turn to it while c2 reads and deletes it.
InitRace ==
    /\ users = <<[id |-> 1, name |-> "Alice", email |-> "a@x.com",
                  password |-> Hash(Pw6, 1)]>>
    /\ sessionStore = [s \in Sessions |-> UserSession(1)]
    /\ conversations = <<ConversationRow("1", NewChatTitle, 0)>>
    /\ convSeq = 1
    /\ messages = <<>>
    /\ msgSeq = 0
    /\ bookings = <<>>
    /\ uploads = {}
    /\ uploadSeq = 0
    /\ now = 0
    /\ today = 1
    /\ apiKey = EmptyStr
    /\ reqs = [s \in Sessions |-> Idle]
    /\ last = NoResponse

NextRace ==
    \/ Tick
    \/ ChatReceive("c1", TextHi, 1, <<>>)
    \/ ChatResolve("c1")
    \/ ChatHistory("c1")
    \/ ChatSaveUser("c1")
    \/ ChatTouchUser("c1")
    \/ ChatCallApi("c1", NotCalled)
    \/ ChatGenerate("c1")
    \/ ChatSaveAi("c1")
    \/ ChatFinish("c1")
    \/ GetChat("c2", 1)
    \/ DeleteChat("c2", 1)
    \/ DeleteChatDelete("c2")

SpecRace == InitRace /\ [][NextRace]_vars

\* Client c1, logged in as user 1, sends chat turns without a conversation
\* id, to its own conversation 2 (when it has one), to conversation 1 of
\* user 2 and to the id 3 that does not exist: a short message, a message of
\* 51 characters, a file without a message, and nothing at all.
Long51 == [i \in 1..51 |-> 97 + (i % 26)]

TurnForms ==
    {[message |-> TextHi, files |-> <<>>], [message |-> Long51, files |-> <<>>],
     [message |-> EmptyStr, files |-> <<PdfFile>>], [message |-> EmptyStr, files |-> <<>>]}

InitTurn ==
    \E owned \in BOOLEAN :
    /\ users = <<[id |-> 1, name |-> "Alice", email |-> "a@x.com",
                  password |-> Hash(Pw6, 1)],
                 [id |-> 2, name |-> "Alice", email |-> "b@x.com",
                  password |-> Hash(Pw7, 1)]>>
    /\ sessionStore = [s \in Sessions |-> IF s = "c1" THEN UserSession(1) ELSE EmptySession]
    /\ conversations = <<ConversationRow("2", TextHi, 0)>>
                          \o (IF owned THEN <<ConversationRow("1", TextOk, 0)>> ELSE <<>>)
    /\ convSeq = Len(conversations)
    /\ messages = <<>>
    /\ msgSeq = 0
    /\ bookings = <<>>
    /\ uploads = {}
    /\ uploadSeq = 0
    /\ now = 1
    /\ today = 1
    /\ apiKey = EmptyStr
    /\ reqs = [s \in Sessions |-> Idle]
    /\ last = NoResponse

NextTurn ==
    \E s \in {"c1"} :
       \/ \E f \in TurnForms, c \in 0..3 : ChatReceive(s, f.message, c, f.files)
       \/ ChatResolve(s)
       \/ ChatHistory(s)
       \/ ChatSaveUser(s)
       \/ ChatTouchUser(s)
       \/ ChatCallApi(s, NotCalled)
       \/ ChatGenerate(s)
       \/ ChatSaveAi(s)
       \/ ChatFinish(s)
       \/ ListChats(s)

SpecTurn == InitTurn /\ [][NextTurn]_vars

\* Client c1, logged in as user 1, renames conversations and edits and deletes
\* messages with every pair of a conversation id and a message id: its own
\* conversations 1 and 3, conversation 2 of user 2, and ids that do not exist.
FrameConvs == 0..3
FrameMsgs == 1..5

InitFrame ==
    /\ users = <<[id |-> 1, name |-> "Alice", email |-> "a@x.com",
                  password |-> Hash(Pw6, 1)],
                 [id |-> 2, name |-> "Alice", email |-> "b@x.com",
                  password |-> Hash(Pw7, 1)]>>
    /\ sessionStore = [s \in Sessions |-> IF s = "c1" THEN UserSession(1) ELSE EmptySession]
    /\ conversations = <<ConversationRow("1", TextHi, 0), ConversationRow("2", TextHi, 0),
                         ConversationRow("1", NewChatTitle, 0)>>
    /\ convSeq = 3
    /\ messages = <<MessageRow(1, "user", TextHi, <<>>, 0),
                    MessageRow(1, "ai", GreetingEn, <<>>, 0),
                    MessageRow(2, "user", TextHi, <<>>, 0),
                    MessageRow(3, "user", TextHi, <<>>, 0)>>
    /\ msgSeq = 4
    /\ bookings = <<>>
    /\ uploads = {}
    /\ uploadSeq = 0
    /\ now = 1
    /\ today = 1
    /\ apiKey = EmptyStr
    /\ reqs = [s \in Sessions |-> Idle]
    /\ last = NoResponse

NextFrame ==
    \E s \in {"c1"} :
       \/ \E c \in FrameConvs, t \in Titles : RenameChat(s, c, t)
       \/ RenameChatUpdate(s)
       \/ \E c \in FrameConvs, m \in FrameMsgs, t \in Contents : EditMessage(s, c, m, t)
       \/ EditMessageUpdate(s)
       \/ EditMessageTouch(s)
       \/ \E c \in FrameConvs, m \in FrameMsgs : DeleteMessage(s, c, m)
       \/ DeleteMessageDelete(s)
       \/ DeleteMessageTouch(s)
       \/ \E c \in FrameConvs : GetChat(s, c)

SpecFrame == InitFrame /\ [][NextFrame]_vars

\* Chat requests arriving on conversations of 0 to 12 stored turns, one turn
\* per second, the session check and the ownership check already passed.
StoredCounts == {0, 1, 6, 10, 11, 12}

StoredTurn(i) ==
    MessageRow(1, IF i % 2 = 1 THEN "user" ELSE "ai", <<64 + i>>, <<>>, i)

InitHist ==
    \E n \in StoredCounts, key \in ApiKeys :
    /\ users = <<[id |-> 1, name |-> "Alice", email |-> "a@x.com",
                  password |-> Hash(Pw6, 1)]>>
    /\ sessionStore = [s \in Sessions |-> IF s = "c1" THEN UserSession(1) ELSE EmptySession]
    /\ conversations = <<[ConversationRow("1", NewChatTitle, 0) EXCEPT !.updated_at = n]>>
    /\ convSeq = 1
    /\ messages = [i \in 1..n |-> StoredTurn(i)]
    /\ msgSeq = n
    /\ bookings = <<>>
    /\ uploads = {}
    /\ uploadSeq = 0
    /\ now = n + 1
    /\ today = 1
    /\ apiKey = key
    /\ reqs = [s \in Sessions |->
                 IF s = "c1"
                 THEN [Idle EXCEPT !.op = "chat", !.pc = "history",
                                   !.sess = UserSession(1), !.chatId = 1,
                                   !.arg = TextHi]
                 ELSE Idle]
    /\ last = NoResponse

NextHist ==
    \E s \in Sessions :
       \/ ChatHistory(s)
       \/ ChatSaveUser(s)
       \/ ChatTouchUser(s)
       \/ \E k \in Completions \cup {NotCalled} : ChatCallApi(s, k)
       \/ ChatGenerate(s)
       \/ ChatSaveAi(s)
       \/ ChatFinish(s)
       \/ \E e \in DatastoreErrors : ChatDatastoreError(s, e)

SpecHist == InitHist /\ [][NextHist]_vars

NextGen ==
    \E s \in Sessions :
       \/ \E k \in Completions \cup {NotCalled} : ChatCallApi(s, k)
       \/ ChatGenerate(s)
       \/ ChatSaveAi(s)
       \/ ChatFinish(s)
       \/ \E e \in DatastoreErrors : ChatDatastoreError(s, e)

SpecGen == InitGen /\ [][NextGen]_vars

\* ------------------------------------------------------ accounts and sessions
GoodRegistration ==
    [name |-> "Alice", email |-> "a@x.com", password |-> Pw6, confirmPassword |-> Pw6]

\* the register bodies: complete ones (two passwords for one e-mail, a second
\* e-mail) and one for every validation rule
RegisterForms ==
    {GoodRegistration,
     [GoodRegistration EXCEPT !.password = Pw7, !.confirmPassword = Pw7],
     [GoodRegistration EXCEPT !.email = "b@x.com"],
     [GoodRegistration EXCEPT !.name = ""],
     [GoodRegistration EXCEPT !.email = ""],
     [GoodRegistration EXCEPT !.password = EmptyStr],
     [GoodRegistration EXCEPT !.confirmPassword = EmptyStr],
     [GoodRegistration EXCEPT !.confirmPassword = Pw7],
     [GoodRegistration EXCEPT !.password = Pw5, !.confirmPassword = Pw5]}

\* the server after start on an empty database, no OpenAI key configured
InitAuth ==
    /\ users = <<>>
    /\ sessionStore = [s \in Sessions |-> EmptySession]
    /\ conversations = <<>>
    /\ convSeq = 0
    /\ messages = <<>>
    /\ msgSeq = 0
    /\ bookings = <<>>
    /\ uploads = {}
    /\ uploadSeq = 0
    /\ now = 0
    /\ today = 1
    /\ apiKey = EmptyStr
    /\ reqs = [s \in Sessions |-> Idle]
    /\ last = NoResponse

\* both clients register, log in and out, enter as guest and ask who they are
NextAuth ==
    \E s \in Sessions :
       \/ Guest(s)
       \/ Logout(s)
       \/ CheckSession(s)
       \/ \E f \in RegisterForms :
             Register(s, f.name, f.email, f.password, f.confirmPassword)
       \/ RegisterInsert(s)
       \/ \E e \in Emails, p \in Passwords : Login(s, e, p)
       \/ Dashboard(s)

SpecAuth == InitAuth /\ [][NextAuth]_vars

\* ------------------------------------------------- the gate of every endpoint
\* An empty database and nobody logged in.  Client c1 calls every endpoint,
\* one request after the other, with and without an identity.
InitGate ==
    /\ users = <<>>
    /\ sessionStore = [s \in Sessions |-> EmptySession]
    /\ conversations = <<>>
    /\ convSeq = 0
    /\ messages = <<>>
    /\ msgSeq = 0
    /\ bookings = <<>>
    /\ uploads = {}
    /\ uploadSeq = 0
    /\ now = 0
    /\ today = 1
    /\ apiKey = EmptyStr
    /\ reqs = [s \in Sessions |-> Idle]
    /\ last = NoResponse

NextGate ==
    \E s \in {"c1"} :
       \/ Guest(s)
       \/ Logout(s)
       \/ CheckSession(s)
       \/ Login(s, "a@x.com", Pw6)
       \/ Register(s, "Alice", "a@x.com", Pw6, Pw6)
       \/ RegisterInsert(s)
       \/ Dashboard(s)
       \/ ListChats(s)
       \/ GetChat(s, 1)
       \/ CreateChat(s, EmptyStr)
       \/ RenameChat(s, 1, NewChatTitle)
       \/ RenameChatUpdate(s)
       \/ DeleteChat(s, 1)
       \/ DeleteChatDelete(s)
       \/ EditMessage(s, 1, 1, TextPadOk)
       \/ EditMessageUpdate(s)
       \/ EditMessageTouch(s)
       \/ DeleteMessage(s, 1, 1)
       \/ DeleteMessageDelete(s)
       \/ DeleteMessageTouch(s)
       \/ \E f \in {<<>>, <<ExeFile>>} : ChatReceive(s, TextHi, 1, f)
       \/ ChatResolve(s)
       \/ ChatHistory(s)
       \/ ChatSaveUser(s)
       \/ ChatTouchUser(s)
       \/ ChatCallApi(s, NotCalled)
       \/ ChatGenerate(s)
       \/ ChatSaveAi(s)
       \/ ChatFinish(s)
       \/ Booking(s, GoodBooking)
       \/ ListBookings(s)

SpecGate == InitGate /\ [][NextGate]_vars

\* Two clients without accounts on an empty database.  Client c1 enters as a
\* guest and creates conversations; client c2 enters as a guest and creates
\* none: it lists the conversations and reads, renames, deletes and appends
\* to conversation 1.
NextGuests ==
    \/ Guest("c1")
    \/ CreateChat("c1", EmptyStr)
    \/ Guest("c2")
    \/ ListChats("c2")
    \/ GetChat("c2", 1)
    \/ RenameChat("c2", 1, TextPadOk)
    \/ RenameChatUpdate("c2")
    \/ DeleteChat("c2", 1)
    \/ DeleteChatDelete("c2")
    \/ ChatReceive("c2", TextHi, 1, <<>>)
    \/ ChatResolve("c2")
    \/ ChatHistory("c2")
    \/ ChatSaveUser("c2")
    \/ ChatTouchUser("c2")
    \/ ChatCallApi("c2", NotCalled)
    \/ ChatGenerate("c2")
    \/ ChatSaveAi("c2")
    \/ ChatFinish("c2")

SpecGuests == InitGate /\ [][NextGuests]_vars

\* ================================================================ properties
\* the client whose request takes the step
ActedBy(s) == reqs'[s] # reqs[s] \/ (last' # last /\ last'.s = s)

\* a response is sent in the step
Responds == last' # last

\* conversation c exists and the identity of client s is not its owner
CrossOwner(s, c) ==
    /\ c \in DOMAIN conversations
    /\ Truthy(sessionStore[s].userId)
    /\ conversations[c].user_id # OwnerOf(sessionStore[s])

\* the step leaves the row of conversation c and the rows of its messages as they are
KeptIntact(c) ==
    /\ c \in DOMAIN conversations'
    /\ conversations'[c] = conversations[c]
    /\ \A m \in DOMAIN messages :
          messages[m].conversation_id = c =>
             m \in DOMAIN messages' /\ messages'[m] = messages[m]

\* the request is answered at once with the status and starts no write
Refused(status) == Responds /\ last'.status = status /\ reqs' = reqs

\* What a step of client s does to a conversation c of another owner.  blank
\* is the status expected of a rename with a title, and of an edit with a
\* content, that is empty after trimming.
CrossOwnerOutcome(blank) ==
    \A s \in Sessions :
       ActedBy(s) =>
          /\ \A c \in ChatIds :
                CrossOwner(s, c) =>
                   /\ KeptIntact(c)
                   /\ ~(reqs[s] = Idle /\ reqs'[s] # Idle /\ reqs'[s].chatId = c)
                   /\ (Responds /\ last'.chatId = c
                       /\ last'.op \in {"getChat", "deleteChat", "deleteMessage"}) =>
                         last'.status = 404
                   /\ (Responds /\ last'.chatId = c /\ last'.op = "renameChat") =>
                         \A t \in Titles :
                            RenameChat(s, c, t) =>
                               last'.status = (IF Trim(t) = EmptyStr THEN blank ELSE 404)
                   /\ (Responds /\ last'.chatId = c /\ last'.op = "editMessage") =>
                         \A t \in Contents :
                            EditMessage(s, c, last'.messageId, t) =>
                               last'.status = (IF Trim(t) = EmptyStr THEN blank ELSE 404)
          /\ (Responds /\ last'.op = "listChats") =>
                \A i \in DOMAIN last'.rows :
                   conversations[last'.rows[i]].user_id = OwnerOf(sessionStore[s])
          /\ (Responds /\ last'.op = "listBookings") =>
                \A i \in DOMAIN last'.rows :
                   bookings[last'.rows[i]].user_id = OwnerOf(sessionStore[s])

\* C1 (as amended): under an identity A, get, rename and delete of a
\* conversation C owned by another identity B, and edit or delete of any
\* message addressed through C, are answered 404 Not Found, except that a
\* rename whose title, and an edit whose content, is empty after trimming is
\* answered 400 before ownership is looked at; every step of A's requests
\* leaves C and its messages unchanged; list-conversations and list-bookings
\* under A return only rows owned by A.
C1_OwnershipIsolation == [][CrossOwnerOutcome(400)]_vars

\* C1 (as stated): every cross-owner get, rename, delete, edit and delete of
\* a message is answered 404 Not Found, whatever the title or content sent.
C1_AlwaysNotFound == [][CrossOwnerOutcome(404)]_vars

\* C1: user 2 has tried to edit message 1 of user 1's conversation 1 with a
\* proper content and was answered 404; the conversation and the message are
\* as user 1 left them.
C1_RefusedForeignEdit ==
    /\ last.op = "editMessage" /\ last.status = 404
    /\ last.uid = "2" /\ last.chatId = 1 /\ last.messageId = 1
    /\ 1 \in DOMAIN conversations /\ conversations[1].user_id = "1"
    /\ 1 \in DOMAIN messages /\ messages[1].content = TextHi

\* C3 (as stated): no stored message row refers to a conversation that is no
\* longer stored, so a conversation and its messages disappear together.
C3_NoMessageOutlivesConversation ==
    \A m \in DOMAIN messages : messages[m].conversation_id \in DOMAIN conversations

\* the conversation is owned by the client's identity and the message is a
\* user message of it
EditableBy(s, c, m) ==
    /\ Truthy(sessionStore[s].userId)
    /\ SelectConversation(c, OwnerOf(sessionStore[s])) # {}
    /\ m \in DOMAIN messages
    /\ messages[m].conversation_id = c
    /\ messages[m].role = "user"

\* the step is the first step of an edit request of client s
EditArrives(s) ==
    /\ reqs[s] = Idle
    /\ IF Responds THEN last'.s = s /\ last'.op = "editMessage"
       ELSE reqs'[s].op = "editMessage"

\* the conversation and the message the request of the step addresses
StepChatId(s) == IF Responds THEN last'.chatId ELSE reqs'[s].chatId
StepMessageId(s) == IF Responds THEN last'.messageId ELSE reqs'[s].messageId

\* C4: an edit of a message whose role is not `user` is refused and no step
\* ever changes the content of such a message; an edit of a user message of
\* an owned conversation with a content that is non-empty after trimming is
\* accepted, its UPDATE stores the trimmed content and sets updated_at to the
\* current time, and it is answered 200.
C4_OnlyUserMessagesAreEdited ==
    [][/\ \A m \in DOMAIN messages :
             (messages[m].role # "user" /\ m \in DOMAIN messages') =>
                messages'[m].content = messages[m].content
       /\ \A s \in Sessions :
             ActedBy(s) =>
                /\ EditArrives(s) =>
                      \A t \in Contents :
                         EditMessage(s, StepChatId(s), StepMessageId(s), t) =>
                            /\ (StepMessageId(s) \in DOMAIN messages
                                /\ messages[StepMessageId(s)].role # "user") =>
                                  (Responds /\ last'.status \in {400, 404}
                                   /\ reqs' = reqs)
                            /\ (EditableBy(s, StepChatId(s), StepMessageId(s))
                                /\ Trim(t) # EmptyStr) =>
                                  (reqs'[s].op = "editMessage" /\ reqs'[s].pc = "update"
                                   /\ reqs'[s].arg = t /\ ~Responds)
                /\ (reqs[s].op = "editMessage" /\ reqs[s].pc = "update"
                    /\ reqs[s].messageId \in DOMAIN messages) =>
                      /\ messages'[reqs[s].messageId].content = Trim(reqs[s].arg)
                      /\ messages'[reqs[s].messageId].updated_at = now
                      /\ reqs'[s].pc = "touch"
                /\ (reqs[s].op = "editMessage" /\ reqs[s].pc = "touch") =>
                      (Responds /\ last'.op = "editMessage" /\ last'.status = 200)
      ]_vars

\* C4: user 1's edit of the user message 1 with " ok " was answered 200, the
\* row holds "ok" and the time of the edit, and the reply row 2 is untouched.
C4_EditedUserMessage ==
    /\ last.op = "editMessage" /\ last.status = 200 /\ last.messageId = 1
    /\ 1 \in DOMAIN messages
    /\ messages[1].content = TextOk
    /\ messages[1].updated_at = 1 /\ messages[1].created_at = 0
    /\ 2 \in DOMAIN messages /\ messages[2].role = "ai"
    /\ messages[2].content = GreetingEn

CompletionFailed(k) == k.kind # "content" \/ Trim(k.content) = EmptyStr

\* C6: generateAIResponse returns a non-empty text for every outcome of the
\* completion call.  With no key configured (unset, empty, white space or the
\* placeholder) the API is not called and the static response is returned;
\* when the call fails or yields an empty or missing completion the static
\* response is returned; neither step of the generation answers the chat
\* request, which goes on to store the reply unless the datastore fails.
C6_ReplyNeverEmpty ==
    [][\A s \in Sessions :
          (ActedBy(s) /\ reqs[s].op = "chat") =>
             /\ reqs[s].pc = "generate" =>
                   /\ ~Responds
                   /\ reqs'[s].pc = "completion"
                   /\ KeyNotConfigured(apiKey) => reqs'[s].completion = NotCalled
             /\ reqs[s].pc = "completion" =>
                   /\ ~Responds
                   /\ reqs'[s].pc = "saveAi"
                   /\ reqs'[s].reply # EmptyStr
                   /\ (KeyNotConfigured(apiKey) \/ CompletionFailed(reqs[s].completion)) =>
                         reqs'[s].reply =
                            generateFallbackResponse(
                               reqs[s].arg \o FileNote(reqs[s].files), reqs[s].files,
                               detectLanguage(reqs[s].arg \o FileNote(reqs[s].files)))
             /\ (reqs[s].pc = "saveAi" /\ ~Responds) =>
                   /\ messages'[msgSeq'].content = reqs[s].reply
                   /\ messages'[msgSeq'].content # EmptyStr
      ]_vars

\* C6: with a key configured the completion call for "hi" ended in a network
\* error, and the reply stored for the request is the static greeting.
C6_FallbackAfterNetworkError ==
    /\ apiKey = RealKey
    /\ reqs["c1"].op = "chat" /\ reqs["c1"].pc = "touch2"
    /\ reqs["c1"].arg = TextHi /\ reqs["c1"].files = <<>>
    /\ reqs["c1"].completion.kind = "network"
    /\ messages[msgSeq].role = "ai"
    /\ messages[msgSeq].content = GreetingEn

\* C7 (as stated): a file in ./uploads belongs to a chat request that is
\* still being handled; once a request is answered none of its files remains.
C7_NoFileOutlivesRequest ==
    \A f \in uploads :
       \E s \in Sessions :
          /\ reqs[s].op = "chat"
          /\ \E i \in DOMAIN reqs[s].files : reqs[s].files[i].path = f

\* ------------------------------------------------------------- registration
\* the four fields of a register body pass the validation
FieldsValid(f) ==
    /\ f.name # "" /\ f.email # ""
    /\ f.password # EmptyStr /\ f.confirmPassword # EmptyStr
    /\ f.password = f.confirmPassword
    /\ Len(f.password) >= 6

\* a users row holds the e-mail
EmailTaken(e) == \E i \in 1..Len(users) : users[i].email = e

\* the step is the arrival of a register request of client s
RegisterArrives(s) ==
    /\ reqs[s] = Idle
    /\ \/ Responds /\ last'.op = "register" /\ last'.s = s
       \/ reqs'[s].op = "register"

OneRowPerEmail ==
    \A i, j \in 1..Len(users) : users[i].email = users[j].email => i = j

\* a register request for an e-mail that has a row is answered 400 and adds no
\* row, when it arrives and when its insert meets the row of a request that
\* overtook it; anyFields tells whether the message 'Email already registered'
\* is required whatever the other fields are
RepeatedRegisterOutcome(anyFields) ==
    \A s \in Sessions :
       /\ RegisterArrives(s) =>
             \A f \in RegisterForms :
                (EmailTaken(f.email)
                   /\ Register(s, f.name, f.email, f.password, f.confirmPassword)) =>
                   /\ Responds
                   /\ last'.status = 400
                   /\ users' = users
                   /\ (anyFields \/ FieldsValid(f)) =>
                         last'.message = "Email already registered"
       /\ (ActedBy(s) /\ reqs[s].op = "register" /\ EmailTaken(reqs[s].email)) =>
             /\ Responds
             /\ last'.op = "register"
             /\ last'.status = 400
             /\ last'.message = "Email already registered"
             /\ users' = users

\* C2 (amended): once e-mail e has a row, every later register call with e
\* is answered 400 and adds no user row; the message is 'Email already
\* registered' when the four fields pass the validation, and the message of
\* the failed validation otherwise.  No state has two rows with one e-mail,
\* also when two requests for e interleave between the query and the insert.
C2_EmailRegisteredOnce ==
    []OneRowPerEmail /\ [][RepeatedRegisterOutcome(FALSE)]_vars

\* C2 (as stated): the message is 'Email already registered' for any name and
\* any password.
C2_AlwaysEmailAlreadyRegistered ==
    []OneRowPerEmail /\ [][RepeatedRegisterOutcome(TRUE)]_vars

\* C2: client c1 holds the account of a@x.com and the register call of
\* client c2 for the same e-mail was refused.
C2_SecondRegistrationRefused ==
    /\ Len(users) = 1 /\ users[1].email = "a@x.com"
    /\ sessionStore["c1"].userId = Num(1)
    /\ last.op = "register" /\ last.s = "c2"
    /\ last.status = 400 /\ last.message = "Email already registered"

\* C10: a register request is accepted only when the four fields are
\* non-empty, the passwords are equal, the password has at least 6 characters
\* and the e-mail has no row; a refused one is answered 400, adds no row and
\* leaves every session as it was; an accepted one whose insert succeeds adds
\* exactly one row, with the name, the e-mail and a hash of the password, and
\* binds the session of the client to the id of the new row.  No other step
\* adds a user row.
C10_RegisterOutcome ==
    [][\A s \in Sessions :
          /\ RegisterArrives(s) =>
                \A f \in RegisterForms :
                   Register(s, f.name, f.email, f.password, f.confirmPassword) =>
                      IF FieldsValid(f) /\ ~EmailTaken(f.email)
                      THEN /\ ~Responds
                           /\ reqs'[s].pc = "insert"
                           /\ reqs'[s].name = f.name
                           /\ reqs'[s].email = f.email
                           /\ reqs'[s].password = f.password
                           /\ users' = users
                           /\ sessionStore' = sessionStore
                      ELSE /\ Responds
                           /\ last'.status = 400
                           /\ users' = users
                           /\ sessionStore' = sessionStore
                           /\ reqs' = reqs
          /\ (ActedBy(s) /\ reqs[s].op = "register") =>
                /\ Responds /\ last'.op = "register" /\ last'.s = s
                /\ IF EmailTaken(reqs[s].email)
                   THEN /\ last'.status = 400
                        /\ users' = users
                        /\ sessionStore' = sessionStore
                   ELSE /\ last'.status = 200
                        /\ Len(users') = Len(users) + 1
                        /\ SubSeq(users', 1, Len(users)) = users
                        /\ LET u == users'[Len(users')] IN
                           /\ u.name = reqs[s].name
                           /\ u.email = reqs[s].email
                           /\ Compare(reqs[s].password, u.password)
                           /\ \A i \in 1..Len(users) : users[i].id # u.id
                           /\ sessionStore'[s].userId = Num(u.id)
                        /\ \A t \in Sessions \ {s} : sessionStore'[t] = sessionStore[t]
          /\ (Responds /\ last'.op = "register" /\ last'.s = s /\ last'.status = 200) =>
                /\ reqs[s].op = "register"
                /\ reqs[s].name # "" /\ reqs[s].email # ""
                /\ Len(reqs[s].password) >= 6
                /\ ~EmailTaken(reqs[s].email)
       /\ (users' # users => Responds /\ last'.op = "register" /\ last'.status = 200)
      ]_vars

\* C10: a register call succeeded: its row is the last of the table and the
\* session of the client carries the id of the row.
C10_RegisteredAndBound ==
    /\ last.op = "register" /\ last.status = 200
    /\ Len(users) >= 1
    /\ users[Len(users)].id = Len(users)
    /\ sessionStore[last.s].userId = Num(users[Len(users)].id)
    /\ sessionStore[last.s].userEmail = users[Len(users)].email

\* ------------------------------------------------------------------ the gate
ProtectedOps ==
    {"listChats", "createChat", "getChat", "renameChat", "deleteChat",
     "editMessage", "deleteMessage", "chat", "booking", "listBookings", "dashboard"}

IdentityOps == {"register", "login", "guest"}

\* the session of client s has no identity
Anonymous(s) == sessionStore[s].userId = Undefined

\* the operation the step of client s belongs to
StepOp(s) == IF Responds THEN last'.op ELSE reqs'[s].op

\* the answer to a protected call without identity: 401, or, when
\* uploadRefusal is allowed, the 400 of the upload stage of POST /api/chat
GateAnswer(s, uploadRefusal) ==
    \/ last'.status = 401
    \/ /\ uploadRefusal
       /\ last'.op = "chat" /\ last'.status = 400 /\ reqs[s] = Idle

\* a step of a protected operation for a client without identity
GateOutcome(uploadRefusal) ==
    \A s \in Sessions :
       /\ (ActedBy(s) /\ Anonymous(s) /\ StepOp(s) \in ProtectedOps) =>
             /\ UNCHANGED dbVars
             /\ sessionStore' = sessionStore
             /\ IF Responds
                THEN last'.s = s /\ GateAnswer(s, uploadRefusal)
                ELSE StepOp(s) = "chat" /\ reqs[s] = Idle /\ reqs'[s].pc = "handler"
       /\ (Anonymous(s) /\ sessionStore'[s].userId # Undefined) =>
             /\ Responds /\ last'.s = s
             /\ last'.op \in IdentityOps
             /\ last'.status = 200

LogoutOutcome(uploadRefusal) ==
    \A s \in Sessions :
       /\ (Responds /\ last'.op = "logout" /\ last'.s = s) =>
             /\ last'.status = 200
             /\ sessionStore'[s] = EmptySession
             /\ UNCHANGED dbVars
       /\ (sessionStore[s] = EmptySession /\ sessionStore'[s] # EmptySession) =>
             /\ Responds /\ last'.s = s
             /\ last'.op \in IdentityOps
             /\ last'.status = 200
       /\ (ActedBy(s) /\ Responds /\ sessionStore[s] = EmptySession) =>
             /\ last'.op = "session" =>
                   /\ last'.status = 200
                   /\ last'.message = "Not authenticated"
                   /\ last'.uid = ""
             /\ last'.op \in ProtectedOps => GateAnswer(s, uploadRefusal)

RegisteredAs(e) == IF e = "a@x.com" THEN Pw6 ELSE Pw73b

\* the passwords a login request carries
LoginPasswords == {EmptyStr, Pw5, Pw6, Pw7, Pw72, Pw73b, Pw73c}

\* both clients register the two accounts, log in with every e-mail and every
\* password, enter as guest and log out
NextLogin ==
    \E s \in Sessions :
       \/ \E e \in {"a@x.com", "b@x.com"} :
             Register(s, "Alice", e, RegisteredAs(e), RegisteredAs(e))
       \/ RegisterInsert(s)
       \/ \E e \in Emails, p \in LoginPasswords : Login(s, e, p)
       \/ Guest(s)
       \/ Logout(s)

SpecLogin == InitAuth /\ [][NextLogin]_vars

\* the row of e-mail e
UserOf(e) == users[CHOOSE i \in 1..Len(users) : users[i].email = e]

\* a login step answers as accepts(e, p) tells: 200 and the session bound to
\* the id of the row when it accepts, refusal(e, p) and the session as it was
\* when it does not; no table changes
LoginOutcome(accepts(_, _), refusal(_, _)) ==
    \A s \in Sessions :
       (Responds /\ last'.op = "login" /\ last'.s = s) =>
          \A e \in Emails, p \in LoginPasswords :
             Login(s, e, p) =>
                /\ UNCHANGED dbVars
                /\ IF accepts(e, p)
                   THEN /\ last'.status = 200
                        /\ sessionStore'[s].userId = Num(UserOf(e).id)
                        /\ last'.rows = <<UserOf(e).id>>
                   ELSE /\ last'.status = refusal(e, p)
                        /\ sessionStore' = sessionStore

\* p is the password e was registered with
IsRegisteredPassword(e, p) == EmailTaken(e) /\ p = RegisteredAs(e)

\* p has the 72 bytes bcrypt reads of the password e was registered with
HasRegisteredKeyBytes(e, p) ==
    /\ e # "" /\ p # EmptyStr
    /\ EmailTaken(e)
    /\ KeyBytes(p) = KeyBytes(RegisteredAs(e))

Always401(e, p) == 401
MissingOr401(e, p) == IF e = "" \/ p = EmptyStr THEN 400 ELSE 401

\* the password column never holds the password the row was registered with
PasswordStoredHashed ==
    \A i \in 1..Len(users) :
       /\ users[i].password.digest # RegisteredAs(users[i].email)
       /\ Compare(RegisteredAs(users[i].email), users[i].password)

GuestAlwaysAnswers == \A s \in Sessions : reqs[s] = Idle => ENABLED Guest(s)

\* C12: the guest endpoint answers 200 whatever the session holds (nothing, a
\* user, a guest), sets the owner id of the session to "guest", its e-mail
\* and name to the guest ones and the guest flag, and changes no table and
\* no other session.
C12_GuestAlwaysSucceeds ==
    /\ []GuestAlwaysAnswers
    /\ [][\A s \in Sessions :
             (Responds /\ last'.op = "guest" /\ last'.s = s) =>
                /\ last'.status = 200
                /\ last'.uid = GuestId
                /\ last'.isGuest
                /\ sessionStore'[s] = [userId |-> Str(GuestId), userEmail |-> GuestEmail,
                                       userName |-> GuestName, isGuest |-> TRUE]
                /\ \A t \in Sessions \ {s} : sessionStore'[t] = sessionStore[t]
                /\ UNCHANGED dbVars
         ]_vars

\* C12: a client of a database that holds an account entered as guest.
C12_GuestBesideAccount ==
    /\ Len(users) >= 1
    /\ last.op = "guest" /\ last.status = 200
    /\ sessionStore[last.s].userId = Str(GuestId)
    /\ sessionStore[last.s].isGuest
    /\ \E t \in Sessions \ {last.s} : sessionStore[t].userId = Num(1)

\* ------------------------------------------------- the updated timestamp
\* User 1 has two conversations and user 2 one, all created in the same
\* second and without messages.  Client c1, logged in as user 1, chats in
\* its conversations, renames them, edits and deletes its message and lists
\* the conversations while the clock runs.
OwnConvs == {1, 2}

InitTouch ==
    /\ users = <<[id |-> 1, name |-> "Alice", email |-> "a@x.com",
                  password |-> Hash(Pw6, 1)],
                 [id |-> 2, name |-> "Alice", email |-> "b@x.com",
                  password |-> Hash(Pw7, 1)]>>
    /\ sessionStore = [s \in Sessions |-> IF s = "c1" THEN UserSession(1) ELSE EmptySession]
    /\ conversations = <<ConversationRow("1", NewChatTitle, 0),
                         ConversationRow("1", NewChatTitle, 0),
                         ConversationRow("2", NewChatTitle, 0)>>
    /\ convSeq = 3
    /\ messages = <<>>
    /\ msgSeq = 0
    /\ bookings = <<>>
    /\ uploads = {}
    /\ uploadSeq = 0
    /\ now = 0
    /\ today = 1
    /\ apiKey = EmptyStr
    /\ reqs = [s \in Sessions |-> Idle]
    /\ last = NoResponse

NextTouch ==
    \/ Tick
    \/ \E s \in {"c1"} :
         \/ ListChats(s)
         \/ \E c \in OwnConvs : RenameChat(s, c, TextPadOk)
         \/ RenameChatUpdate(s)
         \/ \E c \in OwnConvs : EditMessage(s, c, 1, TextPadOk)
         \/ EditMessageUpdate(s)
         \/ EditMessageTouch(s)
         \/ \E c \in OwnConvs : DeleteMessage(s, c, 1)
         \/ DeleteMessageDelete(s)
         \/ DeleteMessageTouch(s)
         \/ \E c \in OwnConvs : ChatReceive(s, TextHi, c, <<>>)
         \/ ChatResolve(s)
         \/ ChatHistory(s)
         \/ ChatSaveUser(s)
         \/ ChatTouchUser(s)
         \/ ChatCallApi(s, NotCalled)
         \/ ChatGenerate(s)
         \/ ChatSaveAi(s)
         \/ ChatFinish(s)

SpecTouch == InitTouch /\ [][NextTouch]_vars

\* the operations that change a conversation or its messages
MutatingOps == {"renameChat", "editMessage", "deleteMessage", "chat"}

\* the step answers 200 to a mutation of conversation c
MutationSucceeds(c) ==
    /\ Responds
    /\ last'.op \in MutatingOps
    /\ last'.status = 200
    /\ last'.chatId = c

TimestampsInOrder ==
    \A c \in DOMAIN conversations :
       /\ conversations[c].created_at <= conversations[c].updated_at
       /\ conversations[c].updated_at <= now

\* C13: the step that answers a successful rename, edit, delete or chat turn
\* leaves the updated timestamp of the conversation at the time of the step,
\* and so does the step that follows the insert of the user message of a
\* chat turn; no step moves an updated timestamp back or changes a created
\* timestamp, and in every state created <= updated <= now.
C13_UpdatedTimestampBumped ==
    /\ []TimestampsInOrder
    /\ [][/\ \A c \in DOMAIN conversations :
                /\ c \in DOMAIN conversations'
                /\ conversations'[c].updated_at >= conversations[c].updated_at
                /\ conversations'[c].created_at = conversations[c].created_at
                /\ MutationSucceeds(c) => conversations'[c].updated_at = now
          /\ \A s \in Sessions :
                (ActedBy(s) /\ reqs[s].op = "chat" /\ reqs[s].pc = "touch1") =>
                   /\ msgSeq \in DOMAIN messages
                   /\ messages[msgSeq].conversation_id = reqs[s].chatId
                   /\ conversations'[reqs[s].chatId].updated_at = now
         ]_vars

\* C13: a second after the conversations were created the message of
\* conversation 1 was edited: its updated timestamp moved and that of
\* conversation 2 did not.
C13_EditBumpedConversation ==
    /\ last.op = "editMessage" /\ last.status = 200 /\ last.chatId = 1
    /\ conversations[1].created_at = 0
    /\ conversations[1].updated_at = 1
    /\ conversations[2].updated_at = 0

\* the rows of a list answer are the conversations of the caller, each once,
\* by updated timestamp descending
ListedExactlyAndSorted ==
    (Responds /\ last'.op = "listChats" /\ last'.status = 200) =>
       LET q == last'.rows IN
       /\ {q[i] : i \in DOMAIN q} =
             {c \in DOMAIN conversations : conversations[c].user_id = last'.uid}
       /\ \A i, j \in DOMAIN q :
             i < j => /\ q[i] # q[j]
                      /\ conversations[q[i]].updated_at >= conversations[q[j]].updated_at

\* the conversations a list made right after the step may return before c:
\* none when sameSecond is FALSE, those with the timestamp of c when it is TRUE
ListedFirstAfterMutation(sameSecond) ==
    \A c \in DOMAIN conversations :
       MutationSucceeds(c) =>
          \A q \in SelectConversationsOf(conversations[c].user_id)' :
             \A i, j \in DOMAIN q :
                (i < j /\ q[j] = c) =>
                   /\ sameSecond
                   /\ conversations'[q[i]].updated_at = conversations'[c].updated_at

\* C14 (amended): list(owner) returns exactly the conversations whose owner
\* id equals the caller's, sorted by updated timestamp descending: after a
\* message append, edit, delete or a rename on conversation C, C precedes in
\* the list every conversation of the same owner whose updated timestamp is
\* smaller, that is whose last mutation happened in an earlier second;
\* conversations mutated in the same second come in either order.
C14_ListedByUpdatedTimestamp ==
    [][ListedExactlyAndSorted /\ ListedFirstAfterMutation(TRUE)]_vars

\* C14 (as stated): after a mutation of C, C precedes every conversation of
\* the owner whose last mutation happened earlier.
C14_ListedByLastMutation ==
    [][ListedExactlyAndSorted /\ ListedFirstAfterMutation(FALSE)]_vars

\* C14: conversation 2 was changed a second after both were created and the
\* list of user 1 shows it first; the conversation of user 2 is not listed.
C14_MutatedListedFirst ==
    /\ last.op = "listChats" /\ last.status = 200 /\ last.uid = "1"
    /\ last.rows = <<2, 1>>
    /\ conversations[2].updated_at = 1
    /\ conversations[1].updated_at = 0
    /\ conversations[3].user_id = "2"

\* ------------------------------------------------------- the rows of a turn
\* C15 (as stated): every stored message has role user or assistant.
C15_RolesUserOrAssistant ==
    \A m \in DOMAIN messages : messages[m].role \in {"user", "assistant"}

\* the messages of conversation c
MessagesIn(c) == {m \in DOMAIN messages : messages[m].conversation_id = c}

\* C16 (as stated): when a chat request was answered with an error and no
\* request is in flight, every conversation holds the two messages of each
\* of its turns: none was created for a turn that failed and none holds the
\* user message of a turn without its answer.
C16_FailedTurnLeavesNothing ==
    (last.op = "chat" /\ last.status >= 400 /\ \A s \in Sessions : reqs[s] = Idle) =>
       \A c \in DOMAIN conversations :
          /\ MessagesIn(c) # {}
          /\ Cardinality(MessagesIn(c)) % 2 = 0

\* ----------------------------------------------------------------- booking
\* user 1 on client c1 and client c2, which starts without identity, send
\* every booking form and list their bookings; the clients log in, enter as
\* guest and log out
NextBooking ==
    \E s \in Sessions :
       \/ \E f \in BookingForms : Booking(s, f)
       \/ ListBookings(s)
       \/ Login(s, "a@x.com", Pw6)
       \/ Guest(s)
       \/ Logout(s)

SpecBooking == InitChat /\ [][NextBooking]_vars

\* C17 (as stated): every stored booking has an appointment date that is a
\* date and is not earlier than the day the booking was created.
C17_StoredDateNotInPast ==
    \A i \in 1..Len(bookings) :
       /\ bookings[i].appointment_date.kind = "date"
       /\ bookings[i].appointment_date.day >= bookings[i].created_day

\* ------------------------------------------------------------ upload limits
\* a file of exactly the size limit
ExactFile == [PdfFile EXCEPT !.size = FileSizeLimit]

\* n files, all PdfFile but the last
FilesEndingWith(n, f) == [i \in 1..n |-> IF i = n THEN f ELSE PdfFile]

\* the uploads at and beyond the limits
UploadLists ==
    {<<>>, <<ExeFile>>, <<PdfxFile>>}
    \cup {FilesEndingWith(n, f) : n \in {1, FilesLimit, FilesLimit + 1},
                                  f \in {PdfFile, ExactFile, BigFile}}

\* a client enters as guest, logs out and sends chat requests with the uploads
NextUpload ==
    \E s \in {"c1"} :
       \/ Guest(s)
       \/ Logout(s)
       \/ \E f \in UploadLists : ChatReceive(s, TextHi, 0, f)
       \/ ChatResolve(s)
       \/ ChatHistory(s)
       \/ ChatSaveUser(s)
       \/ ChatTouchUser(s)
       \/ ChatCallApi(s, NotCalled)
       \/ ChatGenerate(s)
       \/ ChatSaveAi(s)
       \/ ChatFinish(s)

SpecUpload == InitGate /\ [][NextUpload]_vars

\* the step is the arrival of a chat request of client s
ChatArrives(s) ==
    /\ reqs[s] = Idle
    /\ \/ Responds /\ last'.op = "chat" /\ last'.s = s
       \/ reqs'[s].op = "chat"

AllTypesAllowed(files) == \A i \in DOMAIN files : fileFilter(files[i])

\* the upload stage and the limits: exactPasses tells whether a file of
\* exactly 10 * 1024 * 1024 bytes has to pass
UploadLimitsOutcome(exactPasses) ==
    \A s \in Sessions :
       ChatArrives(s) =>
          \A files \in UploadLists :
             (AllTypesAllowed(files) /\ ChatReceive(s, TextHi, 0, files)) =>
                LET tooLarge == \E i \in DOMAIN files : i <= 10 /\ files[i].size > 10485760
                    atLimit == \E i \in DOMAIN files : i <= 10 /\ files[i].size = 10485760
                    tooLargeAnswer ==
                       /\ Responds
                       /\ last'.message = "File size too large. Maximum size is 10MB per file."
                    tooManyAnswer ==
                       /\ Responds
                       /\ last'.message = "Too many files. Maximum 10 files allowed."
                    passes ==
                       /\ ~Responds
                       /\ reqs'[s].pc = "handler"
                       /\ Len(reqs'[s].files) = Len(files)
                IN
                /\ UNCHANGED dbVars
                /\ Responds => last'.status = 400
                /\ tooLarge => tooLargeAnswer
                /\ (Len(files) <= 10 /\ ~tooLarge) =>
                      IF atLimit /\ ~exactPasses THEN passes \/ tooLargeAnswer ELSE passes
                /\ (Len(files) > 10 /\ ~tooLarge) =>
                      IF atLimit /\ ~exactPasses THEN tooManyAnswer \/ tooLargeAnswer
                      ELSE tooManyAnswer

C19_AcceptedTypesOnly ==
    \A s \in Sessions :
       \A i \in DOMAIN reqs[s].files :
          \/ ExtName(reqs[s].files[i].originalname) \in AllowedTypes
          \/ \E t \in AllowedMimeParts :
                Includes(ToLowerCase(reqs[s].files[i].mimetype), t)

\* ------------------------------------------------------------ chat history
LastOf(q, k) == SubSeq(q, Len(q) - k + 1, Len(q))

AsTurns(q) ==
    [i \in 1..Len(q) |->
        [role |-> IF messages[q[i]].role = "user" THEN "user" ELSE "assistant",
         content |-> messages[q[i]].content]]

\* C20 (as stated): when the history of a chat request has been loaded and
\* the conversation held n messages, the history is the last min(10, n) of
\* them in chronological order, without the current user message, and the
\* completion request is the system instruction, the last min(6, n) of them,
\* then the current user turn.
C20_HistoryIsLastTurns ==
    \A s \in Sessions :
       (reqs[s].op = "chat" /\ reqs[s].pc = "saveUser") =>
          \E q \in SelectMessagesOf(reqs[s].chatId) :
             LET n == Len(q) IN
             /\ reqs[s].hist = AsTurns(LastOf(q, IF n < 10 THEN n ELSE 10))
             /\ ApiMessages(reqs[s].arg, reqs[s].hist) =
                   <<[role |-> "system", content |-> <<83>>]>>
                      \o AsTurns(LastOf(q, IF n < 6 THEN n ELSE 6))
                      \o <<[role |-> "user", content |-> reqs[s].arg]>>

\* ------------------------------------------------------- static response
InLocale(lang, ar, en) == IF lang = "ar" THEN ar ELSE en

\* the answer the priority order gives for the text handed to the generator
PriorityAnswer(text, files, reply) ==
    LET lower == Trim(ToLowerCase(text))
        lang == IF \E i \in 1..Len(text) : IsArabic(text[i]) THEN "ar" ELSE "en"
        matching == {i \in DOMAIN responses : Includes(lower, responses[i].keyword)}
    IN  IF files # <<>> THEN reply = InLocale(lang, FileAckAr, FileAckEn)
        ELSE IF matching # {}
        THEN \E i \in matching :
                /\ \A j \in matching : i <= j
                /\ reply = InLocale(lang, responses[i].ar, responses[i].en)
        ELSE IF \E w \in GreetingWords : Includes(lower, w)
        THEN reply = InLocale(lang, GreetingAr, GreetingEn)
        ELSE IF \E w \in ThanksWords : Includes(lower, w)
        THEN reply = InLocale(lang, ThanksAr, ThanksEn)
        ELSE IF \E w \in HelpWords : Includes(lower, w)
        THEN reply = InLocale(lang, HelpAr, HelpEn)
        ELSE reply = InLocale(lang, GenericAr, GenericEn)

\* C21: whenever the static response is used (no key configured, or the
\* completion call failed), the reply is chosen in the fixed priority: with
\* files attached the file acknowledgement, whatever the text; otherwise the
\* entry of the first keyword of the table that the lower-cased message
\* includes; otherwise the greeting, then the thanks, then the help intent;
\* otherwise the generic paragraph.  The reply is never empty and is the
\* Arabic entry when the text holds an Arabic-range code point, the English
\* entry otherwise.
C21_FallbackPriority ==
    [][\A s \in Sessions :
          (/\ reqs[s].op = "chat" /\ reqs[s].pc = "completion" /\ ActedBy(s)
           /\ (KeyNotConfigured(apiKey) \/ CompletionFailed(reqs[s].completion))) =>
             /\ reqs'[s].reply # EmptyStr
             /\ PriorityAnswer(reqs[s].arg \o FileNote(reqs[s].files), reqs[s].files,
                               reqs'[s].reply)
      ]_vars

\* C21: "tenant rent" without files and without a key was answered with the
\* entry of "tenant", which stands before "rent" in the table.
C21_FirstKeywordAnswered ==
    /\ KeyNotConfigured(apiKey)
    /\ reqs["c1"].op = "chat" /\ reqs["c1"].pc = "saveAi"
    /\ reqs["c1"].files = <<>>
    /\ reqs["c1"].arg = <<116, 101, 110, 97, 110, 116, 32, 114, 101, 110, 116>>
    /\ reqs["c1"].reply = responses[5].en
    /\ reqs["c1"].reply # responses[6].en

\* ------------------------------------------------------------------ rename
AllSpace(str) == \A i \in 1..Len(str) : IsSpace(str[i])

\* inner is str without the white space around it
Stripped(str, inner) ==
    /\ inner # <<>>
    /\ ~IsSpace(inner[1]) /\ ~IsSpace(inner[Len(inner)])
    /\ \E i \in 1..Len(str) :
          /\ i + Len(inner) - 1 <= Len(str)
          /\ SubSeq(str, i, i + Len(inner) - 1) = inner
          /\ AllSpace(SubSeq(str, 1, i - 1))
          /\ AllSpace(SubSeq(str, i + Len(inner), Len(str)))

\* a rename request of client s arrives in the step
RenameArrives(s) ==
    /\ reqs[s] = Idle
    /\ (last' # last /\ last'.op = "renameChat") \/ reqs'[s].op = "renameChat"

\* C22: a rename of an owned conversation with a title that is not empty
\* after trimming stores the title without the white space around it, answers
\* 200, and changes no other conversation, no other column of the renamed
\* one but its updated timestamp, and no message; a rename by a client with
\* an identity whose title is empty or only white space is answered 400
\* 'Title is required' and leaves every table, title and updated timestamp
\* included, as it was.
C22_RenameTrimsAndFrames ==
    [][\A s \in Sessions :
          /\ \A c \in FrameConvs, t \in Titles :
                (RenameArrives(s) /\ RenameChat(s, c, t)) =>
                   /\ UNCHANGED dbVars
                   /\ (Truthy(sessionStore[s].userId) /\ AllSpace(t)) =>
                         /\ last'.status = 400
                         /\ last'.message = "Title is required"
                   /\ (/\ Truthy(sessionStore[s].userId) /\ ~AllSpace(t)
                       /\ c \in DOMAIN conversations
                       /\ conversations[c].user_id = OwnerOf(sessionStore[s])) =>
                         /\ ~Responds
                         /\ reqs'[s].op = "renameChat" /\ reqs'[s].pc = "update"
          /\ (reqs[s].op = "renameChat" /\ reqs[s].pc = "update" /\ ActedBy(s)) =>
                LET c == reqs[s].chatId IN
                /\ last'.op = "renameChat" /\ last'.status = 200
                /\ DOMAIN conversations' = DOMAIN conversations
                /\ c \in DOMAIN conversations
                /\ Stripped(reqs[s].arg, conversations'[c].title)
                /\ conversations'[c].updated_at = now
                /\ conversations'[c].user_id = conversations[c].user_id
                /\ conversations'[c].created_at = conversations[c].created_at
                /\ \A d \in DOMAIN conversations \ {c} :
                      conversations'[d] = conversations[d]
                /\ UNCHANGED <<users, convSeq, messages, msgSeq, bookings>>
      ]_vars

\* C22: a rename to " ok " was answered 200 and the conversation is titled "ok".
C22_RenamedTrimmed ==
    /\ last.op = "renameChat" /\ last.status = 200
    /\ last.chatId \in DOMAIN conversations
    /\ conversations[last.chatId].title = TextOk

\* ---------------------------------------------------------- delete message
\* a delete-message request of client s arrives in the step
DeleteMessageArrives(s) ==
    /\ reqs[s] = Idle
    /\ (last' # last /\ last'.op = "deleteMessage") \/ reqs'[s].op = "deleteMessage"

\* conversation c is owned by the identity of client s
OwnedBy(s, c) ==
    /\ Truthy(sessionStore[s].userId)
    /\ c \in DOMAIN conversations
    /\ conversations[c].user_id = OwnerOf(sessionStore[s])

\* C23: a delete of a message of an owned conversation is accepted whatever
\* the role of the message; it removes the row of that message and no other,
\* leaves every remaining message as it was, changes of the conversations
\* only the updated timestamp of the one in the path, and answers 200.
C23_DeleteAnyRoleOneRow ==
    [][\A s \in Sessions :
          /\ \A c \in FrameConvs, m \in FrameMsgs :
                (DeleteMessageArrives(s) /\ DeleteMessage(s, c, m)) =>
                   /\ UNCHANGED dbVars
                   /\ (/\ OwnedBy(s, c) /\ m \in DOMAIN messages
                       /\ messages[m].conversation_id = c) =>
                         /\ ~Responds
                         /\ reqs'[s].op = "deleteMessage" /\ reqs'[s].pc = "delete"
                         /\ reqs'[s].messageId = m /\ reqs'[s].chatId = c
          /\ (reqs[s].op = "deleteMessage" /\ reqs[s].pc = "delete" /\ ActedBy(s)) =>
                /\ ~Responds
                /\ reqs[s].messageId \in DOMAIN messages
                /\ DOMAIN messages' = DOMAIN messages \ {reqs[s].messageId}
                /\ \A k \in DOMAIN messages' : messages'[k] = messages[k]
                /\ UNCHANGED <<users, conversations, convSeq, msgSeq, bookings>>
          /\ (reqs[s].op = "deleteMessage" /\ reqs[s].pc = "touch" /\ ActedBy(s)) =>
                /\ last'.op = "deleteMessage" /\ last'.status = 200
                /\ last'.messageId = reqs[s].messageId
                /\ UNCHANGED <<users, convSeq, messages, msgSeq, bookings>>
                /\ DOMAIN conversations' = DOMAIN conversations
                /\ \A d \in DOMAIN conversations :
                      IF d = reqs[s].chatId
                      THEN conversations'[d] = [conversations[d] EXCEPT !.updated_at = now]
                      ELSE conversations'[d] = conversations[d]
      ]_vars

\* C23: the reply stored with role 'ai' in conversation 1 was deleted with
\* 200, and the user turn of the conversation is as it was.
C23_DeletedGeneratedTurn ==
    /\ last.op = "deleteMessage" /\ last.status = 200 /\ last.messageId = 2
    /\ 2 \notin DOMAIN messages
    /\ 1 \in DOMAIN messages
    /\ messages[1] = MessageRow(1, "user", TextHi, <<>>, 0)

\* ------------------------------------------------------- internal failures
\* C24 (as stated): a response with status 500 carries its generic message
\* and nothing else: no text of the internal error is part of the body.
C24_NoInternalTextInResponse ==
    last.status = 500 => last.detail = ""

\* -------------------------------------------------- identity after a login
\* C25 (as stated): a session whose user id is the id of a registered user,
\* as a successful login or register leaves it, is reported by the session
\* endpoint with that id and the guest flag false, and the dashboard returns
\* the record of that user.
C25_RegisteredIdentityReported ==
    \A s \in Sessions :
       (/\ last.s = s /\ last.status = 200
        /\ last.op \in {"session", "dashboard"}
        /\ sessionStore[s].userId.tag = "number") =>
          /\ last.isGuest = FALSE
          /\ last.uid = DecimalString(sessionStore[s].userId.num)
          /\ last.op = "dashboard" => last.rows = <<sessionStore[s].userId.num>>

\* ------------------------------------------------------- guest isolation
\* C26 (as stated), for two guest sessions of which only c1 creates
\* conversations: no list answered to c2 holds a conversation, and no read,
\* rename, delete or chat turn of c2 on a conversation id succeeds.
C26_GuestSessionsIsolated ==
    last.s = "c2" =>
       /\ last.op = "listChats" => last.rows = <<>>
       /\ (last.op \in {"getChat", "renameChat", "deleteChat", "chat"} /\ last.chatId # 0) =>
             last.status # 200

\* ------------------------------------------------- chat against a delete
\* C27 (as stated): a message is only ever stored in a conversation that
\* exists: every step that inserts a message row leaves the conversation
\* the row refers to stored, also when the conversation was deleted by its
\* owner after the ownership check of the chat turn.
C27_InsertedIntoStoredConversation ==
    [][\A m \in DOMAIN messages' \ DOMAIN messages :
          messages'[m].conversation_id \in DOMAIN conversations']_vars

\* -------------------------------------------- message of another conversation
\* message m is stored in a conversation other than c
ElsewhereThan(c, m) ==
    m \in DOMAIN messages /\ messages[m].conversation_id # c

\* the answers to an edit or a delete that names an owned conversation and a
\* message of another conversation (the ids are those of the response, or of
\* the request the step leaves in flight); an edit with an empty content is
\* answered editEmptyStatus
ForeignMessageOutcome(editEmptyStatus) ==
    \A s \in Sessions :
       LET c == IF Responds THEN last'.chatId ELSE reqs'[s].chatId
           m == IF Responds THEN last'.messageId ELSE reqs'[s].messageId
       IN
       /\ (EditArrives(s) /\ OwnedBy(s, c) /\ ElsewhereThan(c, m)) =>
             \A t \in Contents :
                EditMessage(s, c, m, t) =>
                   /\ UNCHANGED dbVars
                   /\ Responds /\ reqs'[s] = Idle
                   /\ last'.status = IF AllSpace(t) THEN editEmptyStatus ELSE 404
       /\ (/\ DeleteMessageArrives(s) /\ OwnedBy(s, c) /\ ElsewhereThan(c, m)
           /\ DeleteMessage(s, c, m)) =>
             /\ UNCHANGED dbVars
             /\ Responds /\ reqs'[s] = Idle
             /\ last'.status = 404

\* C28 (amended): an edit or a delete that names an owned conversation and a
\* message stored in a different conversation, of any owner, is answered at
\* once and changes no row of any table, so the message, its conversation
\* and the conversation in the path keep their contents and timestamps; the
\* answer is 404, except for an edit whose content is empty or white space,
\* which is answered 400 before the message is looked up.
C28_ForeignMessageUntouched == [][ForeignMessageOutcome(400)]_vars

\* C28 (as stated): the answer is 404 in every such call.
C28_ForeignMessageAlways404 == [][ForeignMessageOutcome(404)]_vars

\* C28: an edit of message 3, stored in conversation 2 of user 2, through
\* the own conversation 1 was answered 404 and left the message as it was.
C28_ForeignMessageRefused ==
    /\ last.op = "editMessage" /\ last.status = 404
    /\ last.message = "Message not found or cannot be edited"
    /\ last.uid = "1" /\ last.chatId = 1 /\ last.messageId = 3
    /\ messages[3] = MessageRow(2, "user", TextHi, <<>>, 0)
    /\ conversations[2] = ConversationRow("2", TextHi, 0)

\* ------------------------------------------- chat on a foreign conversation
\* the chat request of client s is at its conversation check, has passed the
\* session check and the check of its message, and names conversation c
ChatChecks(s, c) ==
    /\ reqs[s].op = "chat" /\ reqs[s].pc = "handler" /\ ActedBy(s)
    /\ Truthy(reqs[s].sess.userId)
    /\ reqs[s].arg # <<>> \/ reqs[s].files # <<>>
    /\ reqs[s].chatId = c

\* C29 (as stated): a chat request that names a conversation which is stored
\* for another owner, or not stored at all, changes no table and is answered
\* 404.
C29_ForeignChatNotFound ==
    [][\A s \in Sessions, c \in 1..3 :
          (/\ ChatChecks(s, c)
           /\ ~(c \in DOMAIN conversations
                 /\ conversations[c].user_id = OwnerOf(reqs[s].sess))) =>
             /\ UNCHANGED dbVars
             /\ last'.op = "chat" /\ last'.status = 404
      ]_vars

\* ------------------------------------------------------- conversation title
\* C30: a chat request without a conversation id that has passed the session
\* check and carries a message or a file creates exactly one conversation,
\* owned by the caller, whose title is the first 50 characters of the
\* message, or 'New Chat' when the message is empty, and changes no other
\* conversation; no other step of a chat request creates a conversation, and
\* no step of a chat request changes the title of a stored conversation.
C30_ChatTitle ==
    [][\A s \in Sessions :
          (reqs[s].op = "chat" /\ ActedBy(s)) =>
             /\ \A c \in DOMAIN conversations :
                   /\ c \in DOMAIN conversations'
                   /\ conversations'[c].title = conversations[c].title
                   /\ conversations'[c].user_id = conversations[c].user_id
             /\ IF ChatChecks(s, 0)
                THEN \E new \in DOMAIN conversations' :
                        LET title == conversations'[new].title
                            message == reqs[s].arg
                        IN
                        /\ DOMAIN conversations' = DOMAIN conversations \cup {new}
                        /\ new \notin DOMAIN conversations
                        /\ conversations'[new].user_id = OwnerOf(reqs[s].sess)
                        /\ reqs'[s].chatId = new
                        /\ IF message = <<>> THEN title = NewChatTitle
                           ELSE /\ Len(title) = (IF Len(message) < 50 THEN Len(message) ELSE 50)
                                /\ \A i \in 1..Len(title) : title[i] = message[i]
                ELSE DOMAIN conversations' = DOMAIN conversations
      ]_vars

\* C30: the turn with the message of 51 characters was answered 200 and its
\* new conversation 2 of user 1 is titled with the first 50 of them.
C30_TitleCutAtFifty ==
    /\ last.op = "chat" /\ last.status = 200 /\ last.chatId = 2
    /\ 2 \in DOMAIN conversations
    /\ conversations[2].user_id = "1"
    /\ conversations[2].title = SubSeq(Long51, 1, 50)

====
